---- MODULE Spec2Model ----
(***************************************************************************)
(* pico-agent: configuration resolution (registry.py), agent invocation    *)
(* through the declared-agent proxy (proxy.py) and the virtual runner      *)
(* (virtual.py), the trace collector (tracing.py) and the map-reduce       *)
(* workflow with its concurrency limiter (virtual.py, scheduler.py).       *)
(*                                                                         *)
(* Python's None / "absent" is modelled as the empty sequence <<>> and a   *)
(* present value v as <<v>>; a dict is a function whose DOMAIN is its key  *)
(* set.                                                                    *)
(***************************************************************************)
EXTENDS Integers, Sequences, FiniteSets, TLC

VARIABLES
    \* AgentConfigService / LocalAgentRegistry
    remote, local, overrides, opLog, lastGet,
    \* one map-reduce run of a WORKFLOW agent and the PlatformScheduler
    mrPhase, mrCfg, mrTasks, tState, workerOut, mapped_results,
    semValue, limit, reducerCalls, final_output, mrFailure,
    \* TraceService, the agent object a caller holds, its last invocation
    traces, run_context, hasTracer, agentObj, pending, lastInv, nInv,
    \* ToolRegistry: _tools, _tag_map, and the register() calls made so far
    reg_tools, tag_map, regLog,
    \* ModelRouter._capability_map and the update_mapping calls made so far
    capability_map, routeLog,
    \* ExperimentRegistry._experiments, the register_experiment calls made so
    \* far, the outcome of the last resolve_variant call
    experiments, expLog, resolved,
    \* build_messages: its arguments and the list it returned
    msgIn, messages,
    \* map-reduce runs nested in mapper workers: the state of each nested run's
    \* mapper tasks, and the event loop asyncio.Semaphore._loop is bound to
    inner, semLoop

cfgVars == <<remote, local, overrides, opLog, lastGet>>

mrVars == <<mrPhase, mrCfg, mrTasks, tState, workerOut, mapped_results,
            semValue, limit, reducerCalls, final_output, mrFailure>>

runVars == <<traces, run_context, hasTracer, agentObj, pending, lastInv, nInv>>

regVars == <<reg_tools, tag_map, regLog>>

svcVars == <<capability_map, routeLog, experiments, expLog, resolved, msgIn, messages,
             inner, semLoop>>

vars == <<cfgVars, mrVars, runVars, regVars, svcVars>>

(***************************************************************************)
(* Bounds                                                                  *)
(***************************************************************************)
\* number of update_agent_config / reset_agent_config calls in one behaviour
MaxOps == 3
\* most task items a splitter returns
MaxTasks == 4
\* largest capacity of the concurrency limiter (PICO_AGENT_MAX_CONCURRENCY)
MaxLimit == 2
\* agent invocations in one behaviour
MaxInv == 2
\* task items of a workflow started through an agent object
MaxWfTasks == 1
\* longest `tools` and `agents` lists of a declared agent
MaxDeps == 2
\* spans opened in one behaviour of the trace collector
MaxSpans == 4
\* ToolRegistry.register calls in one behaviour
MaxRegs == 2
\* longest tag list an agent asks get_dynamic_tools for
MaxAgentTags == 2
\* ModelRouter.update_mapping calls in one behaviour
MaxMaps == 3
\* ExperimentRegistry.register_experiment calls in one behaviour
MaxExps == 2
\* end_run calls made for one span
MaxStamps == 2
\* task items of a run whose mapper workers may be workflow agents
MaxOuter == 2
\* task items the splitter of a nested run returns
MaxInner == 2

(***************************************************************************)
(* AgentConfig (config.py)                                                 *)
(***************************************************************************)
Names == {"a", "b"}

\* AgentConfig(name=name): the dataclass defaults of the modelled fields
DefaultConfig(name) ==
    [name |-> name, enabled |-> TRUE, capability |-> "smart", agent_type |-> "one_shot",
     max_iterations |-> 5, tools |-> <<>>, agents |-> <<>>, tags |-> <<>>,
     tracing_enabled |-> TRUE, workflow_config |-> <<>>]

\* the config the central client serves for a name, when it serves one
RemoteCfg(name) ==
    [DefaultConfig(name) EXCEPT !.capability = "reasoning", !.agent_type = "react"]

\* the config the @agent declaration of a name carries
LocalCfg(name) ==
    [DefaultConfig(name) EXCEPT !.capability = "coding"]

\* keyword arguments given to update_agent_config (a dict of AgentConfig
\* fields; `name` cannot be one of them: it is the positional parameter)
KwargsSet ==
    { <<>>,
      [enabled |-> FALSE],
      [enabled |-> TRUE],
      [capability |-> "fast"],
      [enabled |-> FALSE, capability |-> "fast"] }

(***************************************************************************)
(* AgentConfigService (registry.py)                                        *)
(***************************************************************************)
\* Python truthiness of an Optional[AgentConfig] / of a dict
Truthy(opt) == opt # <<>>

\* dict.update(kwargs): keys of kwargs are added or overwritten
DictUpdateReplaces(d, kwargs) == kwargs

DictUpdate(d, kwargs) ==
    [f \in (DOMAIN d) \cup (DOMAIN kwargs) |->
        IF f \in DOMAIN kwargs THEN kwargs[f] ELSE d[f]]

\* dataclasses.replace(base_config, **runtime_data)
Replace(base, data) ==
    [f \in DOMAIN base |-> IF f \in DOMAIN data THEN data[f] ELSE base[f]]

\* self._runtime_overrides.get(name)
RuntimeData(name) ==
    IF name \in DOMAIN overrides THEN <<overrides[name]>> ELSE <<>>

\* base_config = remote_config or local_config
BaseConfigLocalFirst(name) ==
    IF Truthy(local[name]) THEN local[name] ELSE remote[name]

BaseConfig(name) ==
    IF Truthy(remote[name]) THEN remote[name] ELSE local[name]

\* AgentConfig(**config_data) after config_data["name"] = name
SynthConfigDefaults(name, data) == DefaultConfig(name)

SynthConfig(name, data) ==
    Replace(DefaultConfig(name), [f \in (DOMAIN data) \cup {"name"} |->
        IF f \in DOMAIN data THEN data[f] ELSE name])

\* get_config(name): [ok |-> TRUE, cfg |-> config], or ok = FALSE for
\* ValueError("No configuration found for agent: <name>")
get_config(name) ==
    LET base_config  == BaseConfig(name)
        runtime_data == RuntimeData(name)
        \* `if runtime_data:` is false for None and for the empty dict
        has_runtime  == Truthy(runtime_data) /\ runtime_data[1] # <<>>
    IN  IF Truthy(base_config)
        THEN IF has_runtime
             THEN [ok |-> TRUE, cfg |-> Replace(base_config[1], runtime_data[1])]
             ELSE [ok |-> TRUE, cfg |-> base_config[1]]
        ELSE IF has_runtime
             THEN [ok |-> TRUE, cfg |-> SynthConfig(name, runtime_data[1])]
             ELSE [ok |-> FALSE, cfg |-> DefaultConfig("")]

NoCall == [called |-> FALSE, name |-> "", ok |-> FALSE, cfg |-> DefaultConfig("")]

\* a caller reads the effective config of a name
GetConfigCall(name) ==
    /\ lastGet' = [called |-> TRUE, name |-> name,
                   ok |-> get_config(name).ok, cfg |-> get_config(name).cfg]
    /\ UNCHANGED <<remote, local, overrides, opLog>>
    /\ UNCHANGED <<mrVars, runVars, regVars, svcVars>>

\* self._runtime_overrides after update_agent_config(name, **kwargs)
OverridesAfterUpdate(name, kwargs) ==
    LET cur == IF name \in DOMAIN overrides THEN overrides[name] ELSE <<>>
    IN  [n \in (DOMAIN overrides) \cup {name} |->
           IF n = name THEN DictUpdate(cur, kwargs) ELSE overrides[n]]

\* update_agent_config(name, **kwargs)
update_agent_config(name, kwargs) ==
    /\ Len(opLog) < MaxOps
    /\ overrides' = OverridesAfterUpdate(name, kwargs)
    /\ opLog' = Append(opLog, [op |-> "update", name |-> name, kwargs |-> kwargs])
    /\ lastGet' = NoCall
    /\ UNCHANGED <<remote, local>>
    /\ UNCHANGED <<mrVars, runVars, regVars, svcVars>>

\* reset_agent_config(name)
reset_agent_config(name) ==
    /\ Len(opLog) < MaxOps
    /\ overrides' = [n \in (DOMAIN overrides) \ {name} |-> overrides[n]]
    /\ opLog' = Append(opLog, [op |-> "reset", name |-> name, kwargs |-> <<>>])
    /\ lastGet' = NoCall
    /\ UNCHANGED <<remote, local>>
    /\ UNCHANGED <<mrVars, runVars, regVars, svcVars>>

\* LocalAgentRegistry.register(name, protocol, config)
Register(name) ==
    /\ local' = [local EXCEPT ![name] = <<LocalCfg(name)>>]
    /\ lastGet' = NoCall
    /\ UNCHANGED <<remote, overrides, opLog>>
    /\ UNCHANGED <<mrVars, runVars, regVars, svcVars>>

(***************************************************************************)
(* ToolRegistry (registry.py)                                              *)
(***************************************************************************)
ToolIds == {"t", "u"}

\* the objects passed as tool_cls_or_instance
ToolObjects == {"T1", "T2"}

Tags == {"x", "y", "global"}

\* the `tags` arguments of register: none, one tag, several, one tag twice
TagLists == {<<>>, <<"x">>, <<"global">>, <<"x", "global">>, <<"y", "x">>, <<"x", "x">>}

\* ToolRegistry.__init__: no tool, no tag group, no register() call yet
RegEmpty ==
    /\ reg_tools = [n \in ToolIds |-> <<>>]
    /\ tag_map = [g \in Tags |-> <<>>]
    /\ regLog = <<>>

\* register, the loop over tags: the name is appended to the group of each tag
RECURSIVE TagAll(_, _, _)
TagAll(m, name, tags) ==
    IF tags = <<>> THEN m
    ELSE TagAll([m EXCEPT ![Head(tags)] = Append(@, name)], name, Tail(tags))

\* ToolRegistry.get_tool(name)
get_tool(name) == IF name \in DOMAIN reg_tools THEN reg_tools[name] ELSE <<>>

\* ToolRegistry.get_tool_names_by_tag(tag)
get_tool_names_by_tag(tag) == IF tag \in DOMAIN tag_map THEN tag_map[tag] ELSE <<>>

\* get_dynamic_tools that appends every tool it meets
AddFoundAlways(found_tools, t) ==
    IF t # <<>> THEN Append(found_tools, t[1]) ELSE found_tools

\* get_dynamic_tools, `if t and t not in found_tools: found_tools.append(t)`
AddFound(found_tools, t) ==
    IF t # <<>> /\ ~\E i \in 1..Len(found_tools) : found_tools[i] = t[1]
    THEN Append(found_tools, t[1]) ELSE found_tools

\* get_dynamic_tools, one loop over a list of names
RECURSIVE FoundIn(_, _)
FoundIn(found_tools, tool_names) ==
    IF tool_names = <<>> THEN found_tools
    ELSE FoundIn(AddFound(found_tools, get_tool(Head(tool_names))), Tail(tool_names))

RECURSIVE FoundByTags(_, _)
FoundByTags(found_tools, agent_tags) ==
    IF agent_tags = <<>> THEN found_tools
    ELSE FoundByTags(FoundIn(found_tools, get_tool_names_by_tag(Head(agent_tags))),
                     Tail(agent_tags))

\* ToolRegistry.get_dynamic_tools(agent_tags): the tools of the agent's tags,
\* then the "global" tools
get_dynamic_tools(agent_tags) ==
    FoundIn(FoundByTags(<<>>, agent_tags), get_tool_names_by_tag("global"))

(***************************************************************************)
(* ModelRouter (router.py)                                                 *)
(***************************************************************************)
\* ModelRouter.__init__: the default table
DefaultCapabilityMap ==
    [fast |-> "gpt-5-mini", smart |-> "gpt-5.1", reasoning |-> "gemini-3-pro",
     vision |-> "gpt-4o", coding |-> "claude-3-5-sonnet"]

RouterIdle ==
    /\ capability_map = DefaultCapabilityMap
    /\ routeLog = <<>>

\* resolve_model(capability, runtime_override): a truthy override wins, then
\* the table, then the fallback of dict.get
resolve_model(capability, runtime_override) ==
    IF runtime_override # <<>> /\ runtime_override[1] # "" THEN runtime_override[1]
    ELSE IF capability \in DOMAIN capability_map THEN capability_map[capability]
    ELSE "gpt-5.1"

\* update_mapping that keeps a model already mapped
MappingKeepsOld(capability, model) ==
    [c \in (DOMAIN capability_map) \cup {capability} |->
        IF c \in DOMAIN capability_map THEN capability_map[c] ELSE model]

\* update_mapping: self._capability_map[capability] = model
MappingAfterUpdate(capability, model) ==
    [c \in (DOMAIN capability_map) \cup {capability} |->
        IF c = capability THEN model ELSE capability_map[c]]

(***************************************************************************)
(* ExperimentRegistry (experiments.py)                                     *)
(***************************************************************************)
RECURSIVE SumWeights(_)
SumWeights(variants) ==
    IF variants = <<>> THEN 0 ELSE Head(variants).weight + SumWeights(Tail(variants))

\* register_experiment, the loop: each weight divided by total_weight, kept
\* as the fraction num/den
Normalized(variants) ==
    [i \in 1..Len(variants) |->
        [name |-> variants[i].name, num |-> variants[i].weight,
         den |-> SumWeights(variants)]]

\* register_experiment raises ZeroDivisionError at the first division when
\* the weights sum to 0; an empty dict is never divided
RegisterRaises(variants) == variants # <<>> /\ SumWeights(variants) = 0

ExpIdle ==
    /\ experiments = <<>>
    /\ expLog = <<>>
    /\ resolved = <<>>

\* itertools.accumulate over the stored weights, in units of 1/den
RECURSIVE CumWeights(_)
CumWeights(stored) ==
    IF stored = <<>> THEN <<>>
    ELSE LET front == CumWeights(SubSeq(stored, 1, Len(stored) - 1))
         IN  Append(front, (IF front = <<>> THEN 0 ELSE front[Len(front)])
                           + stored[Len(stored)].num)

\* bisect(cum_weights, x, 0, hi): the 0-based insertion point to the right of
\* x among the first hi entries
bisect(cum_weights, x, hi) == Cardinality({i \in 1..hi : cum_weights[i] <= x})

\* random.choices(choices, weights=weights, k=1)[0]: the names a draw can
\* give; random() * total ranges over [0, total), taken on the grid of 1/den.
\* cum_weights[-1] of an empty list raises IndexError.
choices(stored) ==
    IF stored = <<>> THEN {[ok |-> FALSE, name |-> "IndexError"]}
    ELSE LET cum == CumWeights(stored)
             total == cum[Len(cum)]
         IN  IF total <= 0 THEN {[ok |-> FALSE, name |-> "ValueError"]}
             ELSE {[ok |-> TRUE, name |-> stored[bisect(cum, x, Len(stored) - 1) + 1].name] :
                      x \in 0..(total - 1)}

\* resolve_variant(name): the outcomes a call can have
resolve_variant(name) ==
    IF name \notin DOMAIN experiments THEN {[ok |-> TRUE, name |-> name]}
    ELSE choices(experiments[name])

(***************************************************************************)
(* build_messages (messages.py)                                            *)
(***************************************************************************)
\* a template or a rendered text is a list of pieces: literal text, or a
\* named placeholder {key}
Lit(text) == [ph |-> FALSE, text |-> text]

Ph(key) == [ph |-> TRUE, text |-> key]

\* the keys of a context dict, kept as a list of key/value pairs
Keys(context) == {context[i].key : i \in DOMAIN context}

Value(context, key) == (CHOOSE i \in DOMAIN context : context[i].key = key)

\* template.format(**context): KeyError at a placeholder with no key,
\* otherwise each placeholder replaced by str(value)
Format(template, context) ==
    IF \E i \in DOMAIN template : template[i].ph /\ template[i].text \notin Keys(context)
    THEN [ok |-> FALSE, content |-> <<>>]
    ELSE [ok |-> TRUE,
          content |-> [i \in DOMAIN template |->
                          IF template[i].ph
                          THEN Lit(context[Value(context, template[i].text)].value)
                          ELSE template[i]]]

\* " ".join(str(v) for v in context.values())
RECURSIVE JoinValues(_)
JoinValues(context) ==
    IF context = <<>> THEN <<>>
    ELSE IF Len(context) = 1 THEN <<Lit(context[1].value)>>
    ELSE <<Lit(context[1].value), Lit(" ")>> \o JoinValues(Tail(context))

\* build_messages whose system message is dropped when a placeholder is missing
SystemMessageOrNone(system_prompt, context) ==
    IF system_prompt = <<>> \/ ~Format(system_prompt, context).ok THEN <<>>
    ELSE <<[role |-> "system", content |-> Format(system_prompt, context).content]>>

\* build_messages, the system part: nothing for an empty prompt, else the
\* formatted prompt, the raw prompt on KeyError
SystemMessage(system_prompt, context) ==
    IF system_prompt = <<>> THEN <<>>
    ELSE <<[role |-> "system",
            content |-> IF Format(system_prompt, context).ok
                        THEN Format(system_prompt, context).content
                        ELSE system_prompt]>>

\* build_messages, the user part: the joined values unless the template is
\* non-empty and formats without KeyError
UserContent(user_prompt_template, context) ==
    IF user_prompt_template # <<>> /\ Format(user_prompt_template, context).ok
    THEN Format(user_prompt_template, context).content
    ELSE JoinValues(context)

\* build_messages(config, context)
build_messages(system_prompt, user_prompt_template, context) ==
    SystemMessage(system_prompt, context)
        \o <<[role |-> "user", content |-> UserContent(user_prompt_template, context)]>>

NoMsgInput == [system_prompt |-> <<>>, user_prompt_template |-> <<>>, context |-> <<>>]

MsgIdle ==
    /\ msgIn = NoMsgInput
    /\ messages = <<>>

\* no nested run, and asyncio.Semaphore.__init__: _loop = None
NestIdle ==
    /\ inner = <<>>
    /\ semLoop = <<>>

SvcIdle ==
    /\ RouterIdle
    /\ ExpIdle
    /\ MsgIdle
    /\ NestIdle

\* no workflow run: the limiter as PlatformScheduler.__init__ leaves it
MRIdle ==
    /\ mrPhase = "idle"
    /\ mrCfg = [mappers |-> <<>>, mapper |-> <<>>]
    /\ mrTasks = <<>>
    /\ tState = <<>>
    /\ workerOut = <<>>
    /\ mapped_results = <<>>
    /\ reducerCalls = <<>>
    /\ final_output = <<>>
    /\ mrFailure = "none"

\* no tracer span, no agent object held, nothing invoked
\* no model call: the method called on the model handle, the iteration cap
\* passed to it and whether a schema is passed
NoModelCall == [method |-> "", cap |-> 0, schema |-> FALSE]

NoInvocation ==
    [called |-> FALSE, entry |-> "", name |-> "", effOk |-> FALSE,
     effCfg |-> DefaultConfig(""), usedCfg |-> DefaultConfig(""),
     created |-> 0, llmSpans |-> 0, outcome |-> "", span |-> 0, tools |-> <<>>,
     call |-> NoModelCall, calls |-> <<>>, located |-> 0, in_loop |-> FALSE,
     schema |-> FALSE, spans |-> 0]

RunIdle ==
    /\ traces = <<>>
    /\ run_context = 0
    /\ hasTracer = TRUE
    /\ agentObj = <<>>
    /\ pending = <<>>
    /\ lastInv = NoInvocation
    /\ nInv = 0

CfgInit ==
    /\ SvcIdle
    /\ RegEmpty
    /\ MRIdle
    /\ RunIdle
    /\ limit = 1
    /\ semValue = limit
    /\ remote \in [Names -> {<<>>} \cup {<<RemoteCfg(n)>> : n \in Names}]
    /\ \A n \in Names : Truthy(remote[n]) => remote[n][1].name = n
    /\ local = [n \in Names |-> <<>>]
    /\ overrides = <<>>
    /\ opLog = <<>>
    /\ lastGet = NoCall

CfgNext ==
    \/ \E n \in Names : GetConfigCall(n)
    \/ \E n \in Names, kw \in KwargsSet : update_agent_config(n, kw)
    \/ \E n \in Names : reset_agent_config(n)
    \/ \E n \in Names : Register(n)

SpecCfg == CfgInit /\ [][CfgNext]_vars

(***************************************************************************)
(* Claims about the configuration resolver                                 *)
(***************************************************************************)
Fields == {"name", "enabled", "capability", "agent_type", "max_iterations", "tools",
           "agents", "tracing_enabled", "workflow_config"}

\* the overlay dict of a name, empty when the name has no record
Overlay(n) == IF n \in DOMAIN overrides THEN overrides[n] ELSE <<>>

HasBase(n) == remote[n] # <<>> \/ local[n] # <<>>

MaxOf(S) == CHOOSE i \in S : \A j \in S : j <= i

\* index of the last reset_agent_config(n) in the call log, 0 when none
LastReset(n) ==
    MaxOf({0} \cup {i \in 1..Len(opLog) : opLog[i].op = "reset" /\ opLog[i].name = n})

\* the update_agent_config(n, ...) calls since the last reset of n
Since(n) ==
    {i \in 1..Len(opLog) : i > LastReset(n) /\ opLog[i].op = "update" /\ opLog[i].name = n}

SetFields(n) == UNION {DOMAIN opLog[i].kwargs : i \in Since(n)}

LatestValue(n, f) ==
    opLog[MaxOf({i \in Since(n) : f \in DOMAIN opLog[i].kwargs})].kwargs[f]

C3_OverlayIsLog ==
    \A n \in Names :
        /\ DOMAIN Overlay(n) = SetFields(n)
        /\ \A f \in SetFields(n) : Overlay(n)[f] = LatestValue(n, f)
        /\ (Since(n) = {}) =>
              (/\ n \notin DOMAIN overrides
               /\ get_config(n).ok = HasBase(n)
               /\ HasBase(n) => get_config(n).cfg = BaseConfig(n)[1])

C3_OtherNamesUntouched ==
    \A n \in Names :
        (opLog' # opLog /\ opLog'[Len(opLog')].name # n) =>
            /\ Overlay(n)' = Overlay(n)
            /\ get_config(n)' = get_config(n)

\* C3: the overlay of a name is exactly the fields set since the last reset
\* of that name, each with its most recently set value; after a reset the
\* name has no overlay and get_config returns the base config; a call for
\* one name changes neither the overlay nor the effective config of another.
C3_OverlayAccumulates == [](C3_OverlayIsLog) /\ [][C3_OtherNamesUntouched]_vars

\* one name had the same field set twice, to different values, while the
\* other name keeps an overlay of its own
C3_Witness ==
    \E n \in Names : \E m \in Names \ {n} :
        /\ m \in DOMAIN overrides
        /\ \E i \in Since(n), j \in Since(n) :
             /\ i < j
             /\ "enabled" \in DOMAIN opLog[i].kwargs
             /\ "enabled" \in DOMAIN opLog[j].kwargs
             /\ opLog[i].kwargs.enabled # opLog[j].kwargs.enabled

\* C4 as stated: get_config fails exactly when the name has no remote
\* config, no local declaration and no runtime-override record; a record
\* with no base config always yields a config.
C4_FailsIffNoRecord ==
    lastGet.called =>
        ((~lastGet.ok) <=> (~HasBase(lastGet.name) /\ lastGet.name \notin DOMAIN overrides))

\* C4 (amended): get_config fails exactly when the name has no remote
\* config, no local declaration and no runtime-override record holding at
\* least one field; a non-empty record with no base config yields the
\* defaults overlaid with the record's fields, named as requested.
C4_FailsIffNoFields ==
    lastGet.called =>
        LET n == lastGet.name
        IN  /\ (~lastGet.ok) <=> (~HasBase(n) /\ DOMAIN Overlay(n) = {})
            /\ (~HasBase(n) /\ DOMAIN Overlay(n) # {}) =>
                 /\ lastGet.cfg.name = n
                 /\ lastGet.cfg.enabled =
                      IF "enabled" \in DOMAIN Overlay(n) THEN Overlay(n).enabled ELSE TRUE
                 /\ lastGet.cfg.capability =
                      IF "capability" \in DOMAIN Overlay(n) THEN Overlay(n).capability ELSE "smart"
                 /\ lastGet.cfg.agent_type = "one_shot"
                 /\ lastGet.cfg.tools = <<>>
                 /\ lastGet.cfg.agents = <<>>
                 /\ lastGet.cfg.workflow_config = <<>>

\* a read of a name that only has a runtime-override record
C4_Witness ==
    /\ lastGet.called
    /\ ~HasBase(lastGet.name)
    /\ DOMAIN Overlay(lastGet.name) = {"enabled", "capability"}
    /\ lastGet.ok
    /\ lastGet.cfg.capability = "fast"

(***************************************************************************)
(* Map-reduce workflow (virtual.py) and PlatformScheduler (scheduler.py)   *)
(***************************************************************************)
\* TaskItem.worker_type values the splitter may produce
WorkerTypes == {"coder", "tester", "unknown"}

\* workflow_config["mappers"]: worker_type -> agent name
MappersDict == [coder |-> "python_coder", tester |-> "ghost"]

\* the workflow_config of the run: mappers / mapper may each be absent
MRConfigs ==
    [mappers : {<<>>, <<MappersDict>>}, mapper : {<<>>, <<"qa">>}]

\* SplitterOutput.tasks: every list of at most MaxTasks task items
TaskLists == UNION {[1..n -> WorkerTypes] : n \in 0..MaxTasks}

\* names AgentLocator.get_agent resolves to a runner; any other name gives None
ResolvableAgents == {"python_coder", "qa", "pm_splitter", "tech_lead"}

\* locator.get_agent(name): <<name>> for a runner, <<>> for None
LocateAgent(name) == IF name \in ResolvableAgents THEN <<name>> ELSE <<>>

\* effective `enabled` of the worker agents' configs
WorkerEnabled(name) == name # "qa"

\* text the model returns to the worker of task i
WorkerTexts == <<"w1", "w2", "w3", "w4", "w5", "w6">>

\* worker.run_with_args(task_item.arguments) when the model call succeeds
RunWithArgs(name, i) ==
    IF WorkerEnabled(name) THEN WorkerTexts[i] ELSE "Agent is disabled."

\* worker_name = mappers_cfg.get(worker_type) or simple_mapper ; else simple_mapper
SelectWorkerNoFallback(cfg, wt) ==
    IF cfg.mappers # <<>> /\ wt \in DOMAIN cfg.mappers[1]
    THEN <<cfg.mappers[1][wt]>> ELSE <<>>

SelectWorker(cfg, wt) ==
    IF cfg.mappers # <<>>
    THEN IF wt \in DOMAIN cfg.mappers[1] THEN <<cfg.mappers[1][wt]>> ELSE cfg.mapper
    ELSE cfg.mapper

\* asyncio.Semaphore: `async with` enters at once while the counter is positive
CanAcquireAlways(v) == TRUE

CanAcquire(v) == v > 0

\* Annotated[List[str], operator.add]: the channel's reducer
OperatorAddKeepsLast(acc, xs) == xs

OperatorAdd(acc, xs) == acc \o xs

\* "\n\n".join(mapped_results), a text being the sequence of its pieces
RECURSIVE Join(_)
Join(segs) ==
    IF Len(segs) = 0 THEN <<>>
    ELSE IF Len(segs) = 1 THEN <<segs[1]>>
    ELSE <<segs[1], "\n\n">> \o Join(Tail(segs))

\* the writes of the mapper tasks applied in task order at the end of the step
RECURSIVE ApplyWrites(_, _, _)
ApplyWrites(acc, outs, i) ==
    IF i > Len(outs) THEN acc
    ELSE ApplyWrites(OperatorAdd(acc, <<outs[i]>>), outs, i + 1)

\* what the reducer's model returns for an input
ReducerOut(input) == <<"REPORT:">> \o input

NTasks == Len(mrTasks)

InFlight == {i \in 1..NTasks : tState[i] = "running"}

\* a mapper task raised: the run fails, the other tasks are cancelled and every
\* task inside `async with` leaves it, releasing its slot
AbortKeepsSlots(i, reason, held) ==
    /\ tState' = [j \in 1..NTasks |->
                    IF j = i THEN "failed"
                    ELSE IF tState[j] = "done" THEN "done" ELSE "cancelled"]
    /\ semValue' = semValue + held
    /\ mrPhase' = "failed"
    /\ mrFailure' = reason

Abort(i, reason, held) ==
    /\ tState' = [j \in 1..NTasks |->
                    IF j = i THEN "failed"
                    ELSE IF tState[j] = "done" THEN "done" ELSE "cancelled"]
    /\ semValue' = semValue + Cardinality(InFlight \ {i}) + held
    /\ mrPhase' = "failed"
    /\ mrFailure' = reason

\* task i is inside `async with`: asyncio.to_thread(worker.run_with_args, ...)
EnterWorker(i, worker) ==
    IF worker = <<>>
    THEN \* None.run_with_args: AttributeError, the slot just taken is released
         /\ Abort(i, "AttributeError", 0)
         /\ UNCHANGED <<workerOut>>
    ELSE /\ tState' = [tState EXCEPT ![i] = "running"]
         /\ semValue' = semValue - 1
         /\ UNCHANGED <<mrPhase, mrFailure, workerOut>>

\* splitter_node and distribute_tasks: one Send("mapper", ...) per task item
SplitterNode(tasks) ==
    /\ mrPhase = "idle"
    /\ mrTasks' = tasks
    /\ tState' = [i \in 1..Len(tasks) |-> "pending"]
    /\ workerOut' = [i \in 1..Len(tasks) |-> ""]
    /\ mrPhase' = IF Len(tasks) = 0 THEN "ended" ELSE "map"
    /\ UNCHANGED <<mrCfg, mapped_results, semValue, limit, reducerCalls,
                   final_output, mrFailure>>
    /\ UNCHANGED <<cfgVars, runVars, regVars, svcVars>>

\* the splitter's model call raises
SplitterRaises ==
    /\ mrPhase = "idle"
    /\ mrPhase' = "failed"
    /\ mrFailure' = "splitter"
    /\ UNCHANGED <<mrCfg, mrTasks, tState, workerOut, mapped_results, semValue,
                   limit, reducerCalls, final_output>>
    /\ UNCHANGED <<cfgVars, runVars, regVars, svcVars>>

\* mapper_node of task i up to its first suspension
MapperStart(i) ==
    /\ mrPhase = "map"
    /\ tState[i] = "pending"
    /\ LET worker_name == SelectWorker(mrCfg, mrTasks[i])
       IN  IF worker_name = <<>>
           THEN /\ tState' = [tState EXCEPT ![i] = "done"]
                /\ workerOut' = [workerOut EXCEPT ![i] = "Error: No worker found"]
                /\ UNCHANGED <<semValue, mrPhase, mrFailure>>
           ELSE IF CanAcquire(semValue)
                THEN EnterWorker(i, LocateAgent(worker_name[1]))
                ELSE /\ tState' = [tState EXCEPT ![i] = "waiting"]
                     /\ UNCHANGED <<semValue, mrPhase, mrFailure, workerOut>>
    /\ UNCHANGED <<mrCfg, mrTasks, mapped_results, limit, reducerCalls, final_output>>
    /\ UNCHANGED <<cfgVars, runVars, regVars, svcVars>>

\* a task suspended in `async with self.scheduler.semaphore` gets a slot
MapperAcquire(i) ==
    /\ mrPhase = "map"
    /\ tState[i] = "waiting"
    /\ CanAcquire(semValue)
    /\ EnterWorker(i, LocateAgent(SelectWorker(mrCfg, mrTasks[i])[1]))
    /\ UNCHANGED <<mrCfg, mrTasks, mapped_results, limit, reducerCalls, final_output>>
    /\ UNCHANGED <<cfgVars, runVars, regVars, svcVars>>

\* the worker call of task i returns: the slot is released, the result written
MapperFinish(i) ==
    /\ mrPhase = "map"
    /\ tState[i] = "running"
    /\ tState' = [tState EXCEPT ![i] = "done"]
    /\ workerOut' = [workerOut EXCEPT
                       ![i] = RunWithArgs(SelectWorker(mrCfg, mrTasks[i])[1], i)]
    /\ semValue' = semValue + 1
    /\ UNCHANGED <<mrPhase, mrFailure>>
    /\ UNCHANGED <<mrCfg, mrTasks, mapped_results, limit, reducerCalls, final_output>>
    /\ UNCHANGED <<cfgVars, runVars, regVars, svcVars>>

\* the worker's model call raises inside the worker call of task i
MapperRaises(i) ==
    /\ mrPhase = "map"
    /\ tState[i] = "running"
    /\ Abort(i, "mapper", 1)
    /\ UNCHANGED <<mrCfg, mrTasks, workerOut, mapped_results, limit, reducerCalls,
                   final_output>>
    /\ UNCHANGED <<cfgVars, runVars, regVars, svcVars>>

\* every mapper task of the step has returned: their writes reach the
\* mapped_results channel and the edge mapper -> reducer fires
MapStepEnds ==
    /\ mrPhase = "map"
    /\ \A i \in 1..NTasks : tState[i] = "done"
    /\ mapped_results' = ApplyWrites(mapped_results, workerOut, 1)
    /\ mrPhase' = "reduce"
    /\ UNCHANGED <<mrCfg, mrTasks, tState, workerOut, semValue, limit, reducerCalls,
                   final_output, mrFailure>>
    /\ UNCHANGED <<cfgVars, runVars, regVars, svcVars>>

\* reducer_node
ReducerNode(raises) ==
    /\ mrPhase = "reduce"
    /\ LET combined_input == Join(mapped_results)
       IN  /\ reducerCalls' = Append(reducerCalls, combined_input)
           /\ IF raises
              THEN /\ mrPhase' = "failed"
                   /\ mrFailure' = "reducer"
                   /\ UNCHANGED final_output
              ELSE /\ mrPhase' = "ended"
                   /\ final_output' = <<ReducerOut(combined_input)>>
                   /\ UNCHANGED mrFailure
    /\ UNCHANGED <<mrCfg, mrTasks, tState, workerOut, mapped_results, semValue, limit>>
    /\ UNCHANGED <<cfgVars, runVars, regVars, svcVars>>

\* return result["final_output"] once the graph has no node left to run
ReturnResult ==
    /\ mrPhase = "ended"
    /\ IF final_output = <<>>
       THEN mrPhase' = "failed" /\ mrFailure' = "KeyError"
       ELSE mrPhase' = "done" /\ UNCHANGED mrFailure
    /\ UNCHANGED <<mrCfg, mrTasks, tState, workerOut, mapped_results, semValue, limit,
                   reducerCalls, final_output>>
    /\ UNCHANGED <<cfgVars, runVars, regVars, svcVars>>

CfgQuiet ==
    /\ remote = [n \in Names |-> <<>>]
    /\ local = [n \in Names |-> <<>>]
    /\ overrides = <<>>
    /\ opLog = <<>>
    /\ lastGet = NoCall

MRInit ==
    /\ SvcIdle
    /\ RegEmpty
    /\ CfgQuiet
    /\ RunIdle
    /\ mrPhase = "idle"
    /\ mrCfg \in MRConfigs
    /\ mrTasks = <<>>
    /\ tState = <<>>
    /\ workerOut = <<>>
    /\ mapped_results = <<>>
    /\ limit \in 1..MaxLimit
    /\ semValue = limit
    /\ reducerCalls = <<>>
    /\ final_output = <<>>
    /\ mrFailure = "none"

MRNext ==
    \/ \E ts \in TaskLists : SplitterNode(ts)
    \/ SplitterRaises
    \/ \E i \in 1..NTasks : MapperStart(i)
    \/ \E i \in 1..NTasks : MapperAcquire(i)
    \/ \E i \in 1..NTasks : MapperFinish(i)
    \/ \E i \in 1..NTasks : MapperRaises(i)
    \/ MapStepEnds
    \/ \E r \in BOOLEAN : ReducerNode(r)
    \/ ReturnResult

SpecMR == MRInit /\ [][MRNext]_vars

(***************************************************************************)
(* Claims about the map-reduce workflow                                    *)
(***************************************************************************)
\* the run ended and neither the splitter, a mapper worker nor the reducer
\* raised, and every selected worker resolved
RunWellBehaved ==
    /\ mrPhase \in {"done", "failed"}
    /\ mrFailure \notin {"splitter", "mapper", "reducer", "AttributeError"}

\* C7: for a splitter returning N task items, N >= 0, the reducer is invoked
\* exactly once, only after every mapper has finished, with the N mapped
\* results joined by blank lines, one per task item, and the workflow
\* returns the reducer's output.
C7_ReducerOnceWithAllResults ==
    /\ Len(reducerCalls) <= 1
    /\ Len(reducerCalls) = 1 =>
          /\ \A i \in 1..NTasks : tState[i] = "done"
          /\ reducerCalls[1] = Join(workerOut)
    /\ RunWellBehaved =>
          /\ mrPhase = "done"
          /\ Len(reducerCalls) = 1
          /\ final_output = <<ReducerOut(Join(workerOut))>>

\* mapper worker calls in flight: tasks inside `async with` awaiting to_thread
\* C8: never more than `limit` mapper worker calls are in flight; a slot is
\* held exactly while a worker call is in flight.
C8_InFlightWithinLimit ==
    /\ Cardinality(InFlight) <= limit
    /\ semValue = limit - Cardinality(InFlight)

\* the limiter is full (capacity 2) while another mapper waits for a slot
C8_Witness ==
    /\ limit = 2
    /\ Cardinality(InFlight) = 2
    /\ \E i \in 1..NTasks : tState[i] = "waiting"

\* task i has no resolvable worker: no worker name, or a name the locator
\* resolves to no agent
Unresolvable(i) ==
    \/ SelectWorker(mrCfg, mrTasks[i]) = <<>>
    \/ LocateAgent(SelectWorker(mrCfg, mrTasks[i])[1]) = <<>>

\* C9: a task item with no resolvable worker yields an error text for that
\* item only; the workflow does not abort because of it.
C9_UnresolvedWorkerIsPerItem ==
    /\ mrFailure # "AttributeError"
    /\ \A i \in 1..NTasks :
         (tState[i] = "done" /\ Unresolvable(i)) => workerOut[i] = "Error: No worker found"

(***************************************************************************)
(* Trace collector (tracing.py)                                            *)
(*                                                                         *)
(* An invocation is computed on a "world" record w: the span list, the     *)
(* ambient span id (0 for None), the number of model handles constructed   *)
(* and of llm spans opened so far in the invocation.                       *)
(***************************************************************************)
World ==
    [traces |-> traces, ctx |-> run_context, created |-> 0, llmSpans |-> 0,
     calls |-> <<>>, located |-> 0]

\* str(uuid.uuid4()): an id no span in the list and no ambient context holds;
\* while the list is never cleared it is the new span's position in the list
FreshId(w) == 1 + MaxOf({0, w.ctx} \cup {w.traces[i].id : i \in DOMAIN w.traces})

\* TraceService.start_run
start_run(w, name, run_type) ==
    [w EXCEPT !.traces = Append(@, [id |-> FreshId(w), name |-> name,
                                    run_type |-> run_type, parent_id |-> w.ctx,
                                    closed |-> FALSE, end_time |-> 0,
                                    outputs |-> <<>>, error |-> <<>>]),
              !.ctx = FreshId(w)]

\* the position of the span end_run finds for run_id, 0 when there is none
Found(w, run_id) ==
    IF \E i \in DOMAIN w.traces : w.traces[i].id = run_id
    THEN MaxOf({i \in DOMAIN w.traces : w.traces[i].id = run_id})
    ELSE 0

\* end_run: end_time is stamped again on every call (kept as the number of
\* the stamp), error is set when one is given, outputs otherwise
Stamped(run, error) ==
    [run EXCEPT !.closed = TRUE,
                !.end_time = @ + 1,
                !.error = IF error # <<>> THEN error ELSE @,
                !.outputs = IF error # <<>> THEN @ ELSE <<"output">>]

\* TraceService.end_run(run_id, outputs) / end_run(run_id, error=e)
end_runKeepsAmbient(w, run_id, error) ==
    IF Found(w, run_id) # 0
    THEN [w EXCEPT !.traces[Found(w, run_id)] = Stamped(@, error)]
    ELSE w

end_run(w, run_id, error) ==
    IF Found(w, run_id) # 0
    THEN [w EXCEPT !.traces[Found(w, run_id)] = Stamped(@, error),
                   !.ctx = w.traces[Found(w, run_id)].parent_id]
    ELSE w

\* LangChainLLMFactory.create: one more model handle
CreateLLM(w) == [w EXCEPT !.created = @ + 1]

\* LangChainAdapter._trace around one model call; the ambient id is the same
\* before and after
LLMInvoke(w, raises) ==
    IF hasTracer
    THEN LET w1 == start_run(w, "LLM", "llm")
             w2 == end_run(w1, w1.ctx, IF raises THEN <<"LLM crashed">> ELSE <<>>)
         IN  [w2 EXCEPT !.llmSpans = @ + 1]
    ELSE w

(***************************************************************************)
(* AgentLocator (locator.py) and dependency resolution (proxy.py)          *)
(***************************************************************************)
\* agent names of the invocation model; "ghost" has no config anywhere
RunNames == {"decl", "twin", "virt", "wf", "child_on", "child_off", "ghost"}

\* local_registry.get_protocol(name): register stores config and protocol together
HasProtocol(name) == local[name] # <<>>

\* AgentLocator.get_agent(name): a proxy when a protocol is declared, else a
\* virtual runner holding the config found now, else None
get_agent(name) ==
    IF HasProtocol(name)
    THEN <<[kind |-> "proxy", name |-> name, config |-> DefaultConfig(name)]>>
    ELSE IF get_config(name).ok
         THEN <<[kind |-> "virtual", name |-> name, config |-> get_config(name).cfg]>>
         ELSE <<>>

\* what ToolRegistry holds under a tool name: a LangChain-shaped tool
\* instance, a @tool class with a run method, a @tool class with no callable
\* entry point; any other name is not registered
ToolKind(tool_name) ==
    CASE tool_name = "calc"   -> "langchain"
      [] tool_name = "glob"   -> "langchain"
      [] tool_name = "lookup" -> "tool_class"
      [] tool_name = "broken" -> "no_entry_point"
      [] OTHER                -> "missing"

\* the object registered under a tool name: the instance itself, or the class
ToolObject(tool_name) ==
    IF ToolKind(tool_name) = "langchain" THEN tool_name
    ELSE "class " \o tool_name

\* the registry after scanning and tagging: every known tool under its name,
\* the names in xs tagged "x" and those in globals tagged "global"
RegWith(xs, globals) ==
    /\ reg_tools = [n \in {"calc", "glob", "lookup", "broken"} |-> <<ToolObject(n)>>]
    /\ tag_map = [g \in Tags |-> CASE g = "x" -> xs [] g = "global" -> globals [] OTHER -> <<>>]
    /\ regLog = <<>>

\* one tool, "glob", is tagged "global"
RegScanned == RegWith(<<>>, <<"glob">>)

\* ToolWrapper(tool_ref(), meta): a new object around a new instance, named
\* after the tool
ToolWrapper(tool_name) == tool_name

\* _resolve_tool and _wrap_tool for one name of config.tools
ResolveTool(tool_name) ==
    IF get_tool(tool_name) = <<>> THEN [ok |-> TRUE, error |-> "", tools |-> <<>>]
    ELSE CASE ToolKind(tool_name) = "langchain" ->
                [ok |-> TRUE, error |-> "", tools |-> get_tool(tool_name)]
           [] ToolKind(tool_name) = "tool_class" ->
                [ok |-> TRUE, error |-> "", tools |-> <<ToolWrapper(tool_name)>>]
           [] OTHER -> [ok |-> FALSE, error |-> "ValueError", tools |-> <<>>]

\* the exceptions _resolve_child_agents catches around _create_agent_tool
Caught(error) == error \in {"AgentDisabledError", "ValueError"}

\* _create_agent_tool(agent_name): error "" and tools <<>> stands for None
CreateAgentTool(agent_name) ==
    LET child_agent == get_agent(agent_name)
    IN  IF child_agent = <<>>
        THEN [ok |-> TRUE, error |-> "", tools |-> <<>>]
        ELSE IF ~get_config(agent_name).ok
        THEN [ok |-> FALSE, error |-> "ValueError", tools |-> <<>>]
        ELSE IF ~get_config(agent_name).cfg.enabled
        THEN [ok |-> TRUE, error |-> "", tools |-> <<>>]
        ELSE IF child_agent[1].kind = "virtual"
        THEN \* _get_agent_method_name reads agent.protocol_cls, which a
             \* VirtualAgentRunner does not have
             [ok |-> FALSE, error |-> "AttributeError", tools |-> <<>>]
        ELSE [ok |-> TRUE, error |-> "", tools |-> <<agent_name>>]

\* _resolve_child_agents for one name: caught errors skip the child
ResolveChild(agent_name) ==
    LET r == CreateAgentTool(agent_name)
    IN  IF ~r.ok /\ Caught(r.error)
        THEN [ok |-> TRUE, error |-> "", tools |-> <<>>]
        ELSE r

\* a for-loop over names that stops at the first error and collects the rest
RECURSIVE ResolveEach(_, _, _)
ResolveStep(r, rest, isAgent, acc) ==
    IF ~r.ok THEN [ok |-> FALSE, error |-> r.error, tools |-> acc]
    ELSE ResolveEach(rest, isAgent, acc \o r.tools)

ResolveEach(names, isAgent, acc) ==
    IF names = <<>> THEN [ok |-> TRUE, error |-> "", tools |-> acc]
    ELSE ResolveStep(IF isAgent THEN ResolveChild(Head(names))
                     ELSE ResolveTool(Head(names)),
                     Tail(names), isAgent, acc)

\* DynamicAgentProxy._resolve_dependencies(config): named tools, then children
ResolveChildren(named, config) ==
    IF ~named.ok THEN named
    ELSE ResolveEach(config.agents, TRUE, named.tools)

\* tool_registry.get_dynamic_tools(config.tags)
DynamicTools(config) == get_dynamic_tools(config.tags)

\* _add_dynamic_tools: append the dynamic tools not yet in the list
RECURSIVE AppendNew(_, _)
AppendNew(final_tools, dts) ==
    IF dts = <<>> THEN final_tools
    ELSE AppendNew(IF \E i \in 1..Len(final_tools) : final_tools[i] = Head(dts)
                   THEN final_tools ELSE Append(final_tools, Head(dts)),
                   Tail(dts))

AddDynamicTools(res, config) ==
    IF ~res.ok THEN res ELSE [res EXCEPT !.tools = AppendNew(@, DynamicTools(config))]

ResolveDependencies(config) ==
    AddDynamicTools(ResolveChildren(ResolveEach(config.tools, FALSE, <<>>), config), config)

\* VirtualAgentRunner._resolve_tools: the names of config.tools only
ResolveToolsVirtual(config) == ResolveEach(config.tools, FALSE, <<>>)

(***************************************************************************)
(* Per-invocation execution (proxy.py, virtual.py)                         *)
(***************************************************************************)
\* an outcome that is a raised exception rather than a returned value
IsException(outcome) == outcome \notin {"ok", "disabled_notice"}

Result(w, outcome, usedCfg, tools, call) ==
    [w |-> w, outcome |-> outcome, usedCfg |-> usedCfg, tools |-> tools, call |-> call]

\* the model method the proxy dispatches to
ProxyDispatch(config, structured) ==
    IF config.agent_type = "react"
    THEN [method |-> "invoke_agent_loop", cap |-> config.max_iterations,
          schema |-> structured]
    ELSE IF structured THEN [method |-> "invoke_structured", cap |-> 0, schema |-> TRUE]
    ELSE [method |-> "invoke", cap |-> 0, schema |-> FALSE]

\* the model method a virtual runner's entry point dispatches to
VirtualDispatch(config, entry) ==
    IF entry = "run_structured"
    THEN [method |-> "invoke_structured", cap |-> 0, schema |-> TRUE]
    ELSE IF config.agent_type = "react"
    THEN [method |-> "invoke_agent_loop", cap |-> config.max_iterations,
          schema |-> FALSE]
    ELSE [method |-> "invoke", cap |-> 0, schema |-> FALSE]

\* return types a protocol method declares; _is_pydantic_model(return_type)
ReturnTypes == {"str", "schema"}

IsPydanticModel(return_type) == return_type = "schema"

\* one call on the model handle, traced by LangChainAdapter._trace
ModelCall(w, call, raises) == [LLMInvoke(w, raises) EXCEPT !.calls = Append(@, call)]

\* config = self.config_service.get_config(self.agent_name), read per call
ProxyConfig(name) == get_config(name)

\* the disabled signal of an entry point
DisabledSignalRaises(entry) == "AgentDisabledError"

DisabledSignal(entry) ==
    IF entry = "proxy" THEN "AgentDisabledError"
    ELSE IF entry = "run_structured" THEN "ValueError: Agent is disabled"
    ELSE "disabled_notice"

\* the model call once the handle w1 exists and the tools are resolved
InvokeResolved(w1, config, deps, raises, call) ==
    IF ~deps.ok THEN Result(w1, deps.error, config, <<>>, NoModelCall)
    ELSE Result(ModelCall(w1, call, raises), IF raises THEN "LLM crashed" ELSE "ok",
                config, deps.tools, call)

\* DynamicAgentProxy._execute from the config lookup on
ExecuteConfig(w, r, raises, return_type) ==
    IF ~r.ok THEN Result(w, "ValueError", r.cfg, <<>>, NoModelCall)
    ELSE IF ~r.cfg.enabled THEN Result(w, DisabledSignal("proxy"), r.cfg, <<>>, NoModelCall)
    ELSE InvokeResolved(CreateLLM(w), r.cfg, ResolveDependencies(r.cfg), raises,
                        ProxyDispatch(r.cfg, IsPydanticModel(return_type)))

\* DynamicAgentProxy._execute
ProxyExecute(w, name, raises, return_type) ==
    ExecuteConfig(w, ProxyConfig(name), raises, return_type)

\* VirtualAgentRunner.run_with_args / run_structured on a runner that is not
\* a workflow: `entry` is the method called, `config` is self.config
VirtualOneShot(w, config, raises, entry) ==
    IF ~config.enabled
    THEN Result(w, DisabledSignal(entry), config, <<>>, NoModelCall)
    ELSE InvokeResolved(CreateLLM(w), config, ResolveToolsVirtual(config), raises,
                        VirtualDispatch(config, entry))

\* dict.get(key)
Get(d, key) == IF key \in DOMAIN d THEN <<d[key]>> ELSE <<>>

\* a workflow node calls `entry` on the agent the locator returned: None and
\* a declared-agent proxy have no such method
CallOn(w, agent, name, raises, entry) ==
    IF agent = <<>> \/ agent[1].kind = "proxy"
    THEN Result(w, "AttributeError", DefaultConfig(name), <<>>, NoModelCall)
    ELSE VirtualOneShot(w, agent[1].config, raises, entry)

SubRun(w, name, raises, entry) ==
    CallOn([w EXCEPT !.located = @ + 1], get_agent(name), name, raises, entry)

\* the result of a workflow is reported against the workflow agent's config
OfWorkflow(r, config) ==
    Result(r.w, r.outcome, config, <<>>, [NoModelCall EXCEPT !.method = "map_reduce"])

\* the mapper calls of n task items, one after the other
RECURSIVE MapAll(_, _, _, _)
MapRest(m, worker_name, raises, n) ==
    IF IsException(m.outcome) THEN m
    ELSE MapAll(m.w, worker_name, raises, n)

MapAll(w, worker_name, raises, n) ==
    IF n = 0 THEN Result(w, "ok", DefaultConfig(""), <<>>, NoModelCall)
    ELSE MapRest(SubRun(w, worker_name, raises, "run_with_args"),
                 worker_name, raises, n - 1)

\* reducer_node after the map step m
ReduceAfter(m, config, raises) ==
    IF IsException(m.outcome) THEN OfWorkflow(m, config)
    ELSE OfWorkflow(SubRun(m.w, config.workflow_config.reducer, raises, "run"), config)

\* the map step after the splitter call s returned n task items; an item
\* with no worker name only yields an error text
MapAfter(s, config, worker, raises, n) ==
    IF s.outcome # "ok" THEN OfWorkflow(s, config)
    ELSE IF n = 0 THEN Result(s.w, "KeyError", config, <<>>, NoModelCall)
    ELSE IF worker = <<>> THEN ReduceAfter(s, config, raises)
    ELSE ReduceAfter(MapAll(s.w, worker[1], raises, n), config, raises)

\* _arun_workflow / _arun_map_reduce as the sequence of agent calls it makes,
\* for a splitter returning n task items
RunMapReduce(w, config, wfc, raises, n) ==
    IF Get(wfc, "splitter") = <<>> \/ Get(wfc, "reducer") = <<>>
    THEN Result(w, "ValueError: Map-Reduce requires", config, <<>>, NoModelCall)
    ELSE MapAfter(SubRun(w, wfc.splitter, raises, "run_structured"), config,
                  SelectWorker([mappers |-> Get(wfc, "mappers"),
                                mapper |-> Get(wfc, "mapper")], "coder"),
                  raises, n)

\* _arun_workflow, dispatch by workflow_config["type"]
RunWorkflowUnchecked(w, config, raises, n) ==
    RunMapReduce(w, config, config.workflow_config, raises, n)

RunWorkflow(w, config, raises, n) ==
    IF Get(config.workflow_config, "type") # <<"map_reduce">>
    THEN Result(w, "ValueError: Unknown workflow type", config, <<>>, NoModelCall)
    ELSE RunMapReduce(w, config, config.workflow_config, raises, n)

\* RuntimeError raised by the sync entry point of a workflow agent
SyncInLoopError == "RuntimeError: Cannot call sync run() from inside an async loop"

\* `loop and loop.is_running()` on the workflow branch of run_with_args
RejectedInLoopNever(config, in_loop) == FALSE

RejectedInLoop(config, in_loop) == config.agent_type = "workflow" /\ in_loop

\* VirtualAgentRunner.run_with_args (run calls it with {"input": input});
\* in_loop: the caller's thread has a running event loop
VirtualRunWithArgs(w, config, raises, n, in_loop) ==
    IF ~config.enabled
    THEN Result(w, DisabledSignal("run_with_args"), config, <<>>, NoModelCall)
    ELSE IF RejectedInLoop(config, in_loop)
    THEN Result(w, SyncInLoopError, config, <<>>, NoModelCall)
    ELSE IF config.agent_type = "workflow" THEN RunWorkflow(w, config, raises, n)
    ELSE VirtualOneShot(w, config, raises, "run_with_args")

\* VirtualAgentRunner.arun: the workflow directly, else run in a worker
\* thread, which has no running loop
VirtualArunExec(w, config, raises, n) ==
    IF config.agent_type = "workflow" THEN RunWorkflow(w, config, raises, n)
    ELSE VirtualRunWithArgs(w, config, raises, n, FALSE)

\* the record of a finished invocation of agent `name` through `entry`
Invocation(entry, name, r, span) ==
    [called |-> TRUE, entry |-> entry, name |-> name,
     effOk |-> get_config(name).ok, effCfg |-> get_config(name).cfg,
     usedCfg |-> r.usedCfg, created |-> r.w.created, llmSpans |-> r.w.llmSpans,
     outcome |-> r.outcome, span |-> span, tools |-> r.tools, call |-> r.call,
     calls |-> r.w.calls, located |-> r.w.located, in_loop |-> FALSE,
     schema |-> FALSE, spans |-> Len(r.w.traces)]

(***************************************************************************)
(* Invocations of the agent object a caller holds                          *)
(***************************************************************************)
\* agent = locator.get_agent(name)
GetAgent(name) ==
    /\ agentObj' = get_agent(name)
    /\ UNCHANGED <<traces, run_context, hasTracer, pending, lastInv, nInv>>
    /\ UNCHANGED <<cfgVars, mrVars, regVars, svcVars>>

\* config_service.update_agent_config(name, enabled=b)
UpdateEnabled(name, b) ==
    /\ overrides' = OverridesAfterUpdate(name, [enabled |-> b])
    /\ UNCHANGED <<remote, local, opLog, lastGet>>
    /\ UNCHANGED <<mrVars, runVars, regVars, svcVars>>

\* the agent span method_wrapper opens when a tracer is installed
OpenAgentSpanDetached(name) ==
    IF hasTracer THEN [start_run(World, name, "agent") EXCEPT !.ctx = run_context]
    ELSE World

OpenAgentSpan(name) == IF hasTracer THEN start_run(World, name, "agent") ELSE World

SpanId(w1) == IF hasTracer THEN w1.ctx ELSE 0

\* a finished call through the proxy: the world w2 it leaves behind
ProxyDone(entry, name, r, run_id, w2, return_type) ==
    /\ traces' = w2.traces
    /\ run_context' = w2.ctx
    /\ lastInv' = [Invocation(entry, name, r, run_id) EXCEPT
                      !.schema = IsPydanticModel(return_type)]

\* method_wrapper of a sync protocol method of a declared agent: the span
\* is closed with the result or with the exception
CloseSync(r, run_id) ==
    IF run_id # 0
    THEN end_run(r.w, run_id, IF r.outcome = "ok" THEN <<>> ELSE <<r.outcome>>)
    ELSE r.w

ProxyCallSync(raises, return_type) ==
    /\ agentObj # <<>>
    /\ agentObj[1].kind = "proxy"
    /\ nInv < MaxInv
    /\ \E w1 \in {OpenAgentSpan(agentObj[1].name)} :
         \E r \in {ProxyExecute(w1, agentObj[1].name, raises, return_type)} :
            ProxyDone("proxy_sync", agentObj[1].name, r, SpanId(w1),
                      CloseSync(r, SpanId(w1)), return_type)
    /\ nInv' = nInv + 1
    /\ UNCHANGED <<hasTracer, agentObj, pending>>
    /\ UNCHANGED <<cfgVars, mrVars, regVars, svcVars>>

\* method_wrapper of an async protocol method: the agent span is opened and
\* the coroutine async_inner() is returned to the caller
ProxyCallAsync(return_type) ==
    /\ agentObj # <<>>
    /\ agentObj[1].kind = "proxy"
    /\ pending = <<>>
    /\ nInv < MaxInv
    /\ \E w1 \in {OpenAgentSpan(agentObj[1].name)} :
         /\ traces' = w1.traces
         /\ run_context' = w1.ctx
         /\ pending' = <<[name |-> agentObj[1].name, run_id |-> SpanId(w1),
                           return_type |-> return_type]>>
    /\ nInv' = nInv + 1
    /\ UNCHANGED <<hasTracer, agentObj, lastInv>>
    /\ UNCHANGED <<cfgVars, mrVars, regVars, svcVars>>

\* async_inner: end_run is only reached when _execute returns; the worker
\* thread ran on a copy of the context, the caller's ambient id is its own
CloseAsync(r, run_id) ==
    IF r.outcome = "ok" /\ run_id # 0
    THEN end_run([r.w EXCEPT !.ctx = run_context], run_id, <<>>)
    ELSE [r.w EXCEPT !.ctx = run_context]

\* the caller awaits the coroutine
AwaitAsync(raises) ==
    /\ pending # <<>>
    /\ \E r \in {ProxyExecute(World, pending[1].name, raises, pending[1].return_type)} :
         ProxyDone("proxy_async", pending[1].name, r, pending[1].run_id,
                   CloseAsync(r, pending[1].run_id), pending[1].return_type)
    /\ pending' = <<>>
    /\ UNCHANGED <<hasTracer, agentObj, nInv>>
    /\ UNCHANGED <<cfgVars, mrVars, regVars, svcVars>>

\* a finished call of a virtual runner's entry point
VirtualDone(entry, r, in_loop) ==
    /\ traces' = r.w.traces
    /\ run_context' = run_context
    /\ lastInv' = [Invocation(entry, agentObj[1].name, r, 0) EXCEPT
                      !.in_loop = in_loop, !.schema = (entry = "run_structured")]
    /\ nInv' = nInv + 1
    /\ UNCHANGED <<hasTracer, agentObj, pending>>
    /\ UNCHANGED <<cfgVars, mrVars, regVars, svcVars>>

VirtualHeld ==
    /\ agentObj # <<>>
    /\ agentObj[1].kind = "virtual"
    /\ nInv < MaxInv

\* VirtualAgentRunner.run(input) and run_with_args(args)
VirtualRun(entry, raises, n, in_loop) ==
    /\ VirtualHeld
    /\ \E r \in {VirtualRunWithArgs(World, agentObj[1].config, raises, n, in_loop)} :
         VirtualDone(entry, r, in_loop)

\* await VirtualAgentRunner.arun(input)
VirtualArun(raises, n) ==
    /\ VirtualHeld
    /\ \E r \in {VirtualArunExec(World, agentObj[1].config, raises, n)} :
         VirtualDone("arun", r, TRUE)

\* VirtualAgentRunner.run_structured(input, schema)
VirtualRunStructured(raises) ==
    /\ VirtualHeld
    /\ \E r \in {VirtualOneShot(World, agentObj[1].config, raises, "run_structured")} :
         VirtualDone("run_structured", r, FALSE)

\* workflow_config of the workflow agent "wf"
WfConfig ==
    [type |-> "map_reduce", splitter |-> "virt", reducer |-> "virt", mapper |-> "virt"]

\* the fields VirtualAgentManager.create_agent stores as the override record
CreatedFields(config) == [f \in (DOMAIN config) \ {"name"} |-> config[f]]

\* tool and agent names a declaration may list
ToolNames == {"calc", "lookup", "broken", "nope"}

ChildNames == {"child_on", "child_off", "virt", "ghost"}

SeqsUpTo(S, k) == UNION {[1..n -> S] : n \in 0..k}

\* the registries after scanning: "decl" declared with the config declCfg,
\* two declared children, and "twin" (the fields of "decl"), "virt" and "wf"
\* created by VirtualAgentManager.create_agent
DeclaredWith(declCfg, wfCfg) ==
    /\ remote = [n \in RunNames |-> <<>>]
    /\ local = [n \in RunNames |->
                  CASE n = "decl"      -> <<declCfg>>
                    [] n = "child_on"  -> <<DefaultConfig(n)>>
                    [] n = "child_off" -> <<[DefaultConfig(n) EXCEPT !.enabled = FALSE]>>
                    [] OTHER           -> <<>>]
    /\ overrides = [n \in {"twin", "virt", "wf"} |->
                      IF n = "virt" THEN CreatedFields(DefaultConfig(n))
                      ELSE IF n = "twin" THEN CreatedFields(declCfg)
                      ELSE CreatedFields(wfCfg)]
    /\ opLog = <<>>
    /\ lastGet = NoCall

\* the map-reduce workflow agent "wf"
WfAgent ==
    [DefaultConfig("wf") EXCEPT !.agent_type = "workflow", !.workflow_config = WfConfig]

Declared(tools, agents) ==
    DeclaredWith([DefaultConfig("decl") EXCEPT !.tools = tools, !.agents = agents],
                 WfAgent)

RunInit ==
    /\ SvcIdle
    /\ RegScanned
    /\ Declared(<<>>, <<>>)
    /\ MRIdle
    /\ limit = 1
    /\ semValue = limit
    /\ traces = <<>>
    /\ run_context = 0
    /\ hasTracer \in BOOLEAN
    /\ agentObj = <<>>
    /\ pending = <<>>
    /\ lastInv = NoInvocation
    /\ nInv = 0

RunNext ==
    \/ \E n \in {"decl", "virt", "wf", "ghost"} : GetAgent(n)
    \/ \E n \in {"decl", "virt", "wf"}, b \in BOOLEAN : UpdateEnabled(n, b)
    \/ \E raises \in BOOLEAN, rt \in ReturnTypes : ProxyCallSync(raises, rt)
    \/ \E rt \in ReturnTypes : ProxyCallAsync(rt)
    \/ \E raises \in BOOLEAN : AwaitAsync(raises)
    \/ \E e \in {"run", "run_with_args"}, raises \in BOOLEAN, n \in 0..MaxWfTasks,
          in_loop \in BOOLEAN : VirtualRun(e, raises, n, in_loop)
    \/ \E raises \in BOOLEAN, n \in 0..MaxWfTasks : VirtualArun(raises, n)
    \/ \E raises \in BOOLEAN : VirtualRunStructured(raises)

SpecRun == RunInit /\ [][RunNext]_vars

\* dependency resolution of a declared agent over every short tools / agents list
DepsInit ==
    /\ SvcIdle
    /\ RegScanned
    /\ \E tools \in SeqsUpTo(ToolNames, MaxDeps), agents \in SeqsUpTo(ChildNames, MaxDeps) :
          Declared(tools, agents)
    /\ MRIdle
    /\ limit = 1
    /\ semValue = limit
    /\ traces = <<>>
    /\ run_context = 0
    /\ hasTracer = TRUE
    /\ agentObj = <<>>
    /\ pending = <<>>
    /\ lastInv = NoInvocation
    /\ nInv = 0

DepsNext ==
    \/ \E n \in {"decl", "twin"} : GetAgent(n)
    \/ \E raises \in BOOLEAN : ProxyCallSync(raises, "str")
    \/ \E e \in {"run", "run_with_args"}, raises \in BOOLEAN : VirtualRun(e, raises, 0, FALSE)

SpecDeps == DepsInit /\ [][DepsNext]_vars

(***************************************************************************)
(* Invocation properties                                                   *)
(***************************************************************************)
\* C1: an invocation of an agent whose effective config has enabled = FALSE,
\* through any entry point and for every execution strategy, constructs no
\* model handle and opens no span of kind "llm".
C1_DisabledNeverReachesModel ==
    (lastInv.called /\ lastInv.effOk /\ ~lastInv.effCfg.enabled)
        => (lastInv.created = 0 /\ lastInv.llmSpans = 0)

\* C5: every invocation of an agent object already obtained from the locator
\* runs with the effective configuration as it is at the time of the
\* invocation, for the declared-agent proxy and for the virtual runner.
C5_InvocationUsesEffectiveConfig ==
    (lastInv.called /\ lastInv.effOk) => lastInv.usedCfg = lastInv.effCfg

\* C6: the agent span opened for a declared agent's method invocation, sync
\* or async, is closed once the invocation has returned or raised, and when
\* the model handle raised its error field holds the exception's message.
C6_AgentSpanClosedWithError ==
    (lastInv.called /\ lastInv.entry \in {"proxy_sync", "proxy_async"} /\ lastInv.span # 0)
        => /\ traces[lastInv.span].closed
           /\ (lastInv.outcome = "LLM crashed"
                  => traces[lastInv.span].error = <<"LLM crashed">>)

\* C10: dependency resolution never fails the parent invocation: an enabled
\* declared agent's call always proceeds to its model call, whatever its
\* tools and agents lists name.
C10_ResolutionNeverPropagates ==
    (lastInv.called /\ lastInv.entry = "proxy_sync"
        /\ lastInv.effOk /\ lastInv.effCfg.enabled)
        => lastInv.outcome \in {"ok", "LLM crashed"}

\* the config "decl" and "twin" share, up to the name
SharedConfig(name) == [get_config(name).cfg EXCEPT !.name = ""]

\* C11: for the same effective config a virtual runner passes to the model
\* the tool list a declared-agent runner passes: named tools, one wrapper per
\* enabled child agent and the dynamic tools.
C11_SameToolsForBothRunners ==
    (/\ lastInv.called
     /\ lastInv.name = "twin"
     /\ lastInv.outcome = "ok"
     /\ SharedConfig("twin") = SharedConfig("decl")
     /\ ResolveDependencies(get_config("decl").cfg).ok)
        => lastInv.tools = ResolveDependencies(get_config("decl").cfg).tools

(***************************************************************************)
(* Dispatch by execution strategy                                          *)
(***************************************************************************)
\* AgentType
AgentTypes == {"one_shot", "react", "workflow"}

\* workflow_config dicts: complete, of another type, and with a key missing
WfConfigs ==
    { WfConfig,
      [WfConfig EXCEPT !.type = "pipeline"],
      [type |-> "map_reduce", reducer |-> "virt", mapper |-> "virt"],
      [type |-> "map_reduce", splitter |-> "virt", mapper |-> "virt"],
      [type |-> "map_reduce", splitter |-> "virt", reducer |-> "virt"],
      [splitter |-> "virt", reducer |-> "virt"] }

\* agents declared and created with every strategy and workflow_config
DispatchInit ==
    /\ SvcIdle
    /\ RegScanned
    /\ \E t \in AgentTypes, wt \in AgentTypes, wc \in WfConfigs, en \in BOOLEAN,
          te \in BOOLEAN :
          DeclaredWith([DefaultConfig("decl") EXCEPT !.agent_type = t, !.enabled = en,
                                                     !.tracing_enabled = te],
                       [DefaultConfig("wf") EXCEPT !.agent_type = wt, !.enabled = en,
                                                   !.workflow_config = wc])
    /\ MRIdle
    /\ limit = 1
    /\ semValue = limit
    /\ traces = <<>>
    /\ run_context = 0
    /\ hasTracer = TRUE
    /\ agentObj = <<>>
    /\ pending = <<>>
    /\ lastInv = NoInvocation
    /\ nInv = 0

DispatchNext ==
    \/ \E n \in {"decl", "wf"} : GetAgent(n)
    \/ \E raises \in BOOLEAN, rt \in ReturnTypes : ProxyCallSync(raises, rt)
    \/ \E rt \in ReturnTypes : ProxyCallAsync(rt)
    \/ \E raises \in BOOLEAN : AwaitAsync(raises)
    \/ \E e \in {"run", "run_with_args"}, raises \in BOOLEAN, n \in 0..MaxWfTasks,
          in_loop \in BOOLEAN : VirtualRun(e, raises, n, in_loop)
    \/ \E raises \in BOOLEAN, n \in 0..MaxWfTasks : VirtualArun(raises, n)
    \/ \E raises \in BOOLEAN : VirtualRunStructured(raises)

SpecDispatch == DispatchInit /\ [][DispatchNext]_vars

\* a plain call on the model handle
PlainCalls == {"invoke", "invoke_structured", "invoke_agent_loop"}

\* C12: an enabled agent's invocation dispatches by its effective strategy,
\* for both runner kinds: ONE_SHOT makes one model handle and one invoke (or
\* invoke_structured when a schema is declared); the iterative strategy makes
\* one invoke_agent_loop capped at max_iterations, passing the declared
\* schema; WORKFLOW never makes a plain model call of its own.
C12_DispatchFollowsStrategy ==
    (lastInv.called /\ lastInv.effOk /\ lastInv.effCfg.enabled
        /\ ~(lastInv.in_loop /\ lastInv.entry \in {"run", "run_with_args"}))
    => /\ lastInv.effCfg.agent_type = "one_shot"
            => /\ lastInv.created = 1
               /\ lastInv.calls =
                     <<[method |-> IF lastInv.schema THEN "invoke_structured" ELSE "invoke",
                        cap |-> 0, schema |-> lastInv.schema]>>
       /\ lastInv.effCfg.agent_type = "react"
            => lastInv.calls =
                  <<[method |-> "invoke_agent_loop",
                     cap |-> lastInv.effCfg.max_iterations, schema |-> lastInv.schema]>>
       /\ lastInv.effCfg.agent_type = "workflow"
            => lastInv.call.method \notin PlainCalls

SyncInLoop ==
    /\ lastInv.called
    /\ lastInv.entry \in {"run", "run_with_args"}
    /\ lastInv.in_loop
    /\ lastInv.usedCfg.enabled
    /\ lastInv.usedCfg.agent_type = "workflow"

\* C14: the sync entry point of an enabled WORKFLOW agent, called where an
\* event loop is running, is rejected with its own error before any workflow
\* validation, agent resolution or model call; an invocation that ends with
\* that error never started the workflow, so no failure raised inside a
\* workflow is reported as it.
C14_SyncInLoopRejectedFirst ==
    /\ SyncInLoop => /\ lastInv.outcome = SyncInLoopError
                     /\ lastInv.located = 0
                     /\ lastInv.created = 0
                     /\ lastInv.calls = <<>>
    /\ (lastInv.called /\ lastInv.outcome = SyncInLoopError) => SyncInLoop

\* rejected although the workflow_config is not a valid map_reduce one
C14_Witness ==
    /\ SyncInLoop
    /\ lastInv.outcome = SyncInLoopError
    /\ Get(lastInv.usedCfg.workflow_config, "type") # <<"map_reduce">>

\* the last invocation reached _arun_workflow
WorkflowReached ==
    /\ lastInv.called
    /\ lastInv.usedCfg.agent_type = "workflow"
    /\ \/ lastInv.entry = "arun"
       \/ /\ lastInv.entry \in {"run", "run_with_args"}
          /\ lastInv.usedCfg.enabled
          /\ ~lastInv.in_loop

\* nothing was resolved and no model was built or called
NothingExecuted ==
    lastInv.located = 0 /\ lastInv.created = 0 /\ lastInv.calls = <<>>

\* C15: a workflow invocation whose type is not 'map_reduce' fails with the
\* 'Unknown workflow type' error, a map_reduce one lacking splitter or
\* reducer fails with the configuration error, both before any agent is
\* resolved and before any model call.
C15_WorkflowConfigCheckedFirst ==
    WorkflowReached =>
       LET wfc == lastInv.usedCfg.workflow_config
       IN  /\ Get(wfc, "type") # <<"map_reduce">>
                => /\ lastInv.outcome = "ValueError: Unknown workflow type"
                   /\ NothingExecuted
           /\ (/\ Get(wfc, "type") = <<"map_reduce">>
               /\ (Get(wfc, "splitter") = <<>> \/ Get(wfc, "reducer") = <<>>))
                => /\ lastInv.outcome = "ValueError: Map-Reduce requires"
                   /\ NothingExecuted

\* a workflow of another type with splitter and reducer named was invoked
C15_Witness ==
    /\ WorkflowReached
    /\ Get(lastInv.usedCfg.workflow_config, "type") = <<"pipeline">>
    /\ Get(lastInv.usedCfg.workflow_config, "splitter") # <<>>
    /\ lastInv.outcome = "ValueError: Unknown workflow type"

\* a declared ONE_SHOT agent was invoked once through its typed method, with
\* tracing available, and the invocation reached its model call
OneShotInvokedOnce ==
    /\ lastInv.called
    /\ nInv = 1
    /\ hasTracer
    /\ lastInv.entry \in {"proxy_sync", "proxy_async"}
    /\ lastInv.effCfg.agent_type = "one_shot"
    /\ lastInv.calls # <<>>

\* C16: such an invocation records exactly two spans, one of kind 'agent'
\* and one of kind 'llm', and the llm span's parent_id is the agent span's id.
C16_AgentAndLlmSpan ==
    OneShotInvokedOnce =>
        /\ Len(traces) = 2
        /\ \E a, l \in 1..Len(traces) :
              /\ traces[a].run_type = "agent"
              /\ traces[l].run_type = "llm"
              /\ traces[l].parent_id = traces[a].id

\* an async method whose model call raised
C16_Witness ==
    /\ OneShotInvokedOnce
    /\ lastInv.entry = "proxy_async"
    /\ lastInv.outcome = "LLM crashed"

(***************************************************************************)
(* TraceService alone: properly nested start_run / end_run in one context  *)
(***************************************************************************)
\* run_type values
RunTypes == {"agent", "llm", "tool"}

\* tracer.start_run(name, run_type, inputs)
TraceStart(run_type) ==
    /\ FreshId(World) <= MaxSpans
    /\ \E w \in {start_run(World, "span", run_type)} :
         /\ traces' = w.traces
         /\ run_context' = w.ctx
    /\ UNCHANGED <<hasTracer, agentObj, pending, lastInv, nInv>>
    /\ UNCHANGED <<cfgVars, mrVars, regVars, svcVars>>

\* tracer.end_run(run_id, ...) of the span opened last and not yet closed
TraceEnd(failed) ==
    /\ run_context # 0
    /\ \E w \in {end_run(World, run_context, IF failed THEN <<"error">> ELSE <<>>)} :
         /\ traces' = w.traces
         /\ run_context' = w.ctx
    /\ UNCHANGED <<hasTracer, agentObj, pending, lastInv, nInv>>
    /\ UNCHANGED <<cfgVars, mrVars, regVars, svcVars>>

TraceInit ==
    /\ SvcIdle
    /\ RegEmpty
    /\ CfgQuiet
    /\ MRIdle
    /\ limit = 1
    /\ semValue = limit
    /\ RunIdle

TraceNext ==
    \/ \E run_type \in RunTypes : TraceStart(run_type)
    \/ \E failed \in BOOLEAN : TraceEnd(failed)

SpecTrace == TraceInit /\ [][TraceNext]_vars

\* ids of the spans not yet closed
OpenSpans == {i \in 1..Len(traces) : ~traces[i].closed}

\* the open span opened last, 0 when none is open
Innermost(S) == IF S = {} THEN 0 ELSE MaxOf(S)

\* the ambient id is the innermost open span, and every open span's parent is
\* the open span around it; with no span open it is the value it had before
\* the outermost start_run
C17_AmbientIsInnermost ==
    /\ run_context = Innermost(OpenSpans)
    /\ \A i \in OpenSpans : traces[i].parent_id = Innermost({j \in OpenSpans : j < i})

\* a start_run step records the ambient id as parent and becomes ambient; an
\* end_run step restores the ambient id to the closed span's parent
C17_StepRestores ==
    /\ Len(traces') = Len(traces) + 1
          => /\ traces'[Len(traces')].parent_id = run_context
             /\ run_context' = traces'[Len(traces')].id
    /\ (Len(traces') = Len(traces) /\ run_context # 0)
          => /\ traces'[run_context].closed
             /\ run_context' = traces[run_context].parent_id

\* C17: for properly nested start_run / end_run calls in one context, each
\* start_run records the then-current ambient id as parent_id and makes the
\* new span ambient, each end_run restores the ambient id to the closed
\* span's parent, and after the outermost end_run the ambient id is what it
\* was before the outermost start_run.
C17_NestedRunsRestoreAmbient ==
    [](C17_AmbientIsInnermost) /\ [][C17_StepRestores]_vars

\* three spans nested two deep and side by side, all closed again
C17_Witness ==
    /\ Len(traces) = 3
    /\ OpenSpans = {}
    /\ traces[2].parent_id = 1
    /\ traces[3].parent_id = 1
    /\ run_context = 0

\* the spans of kind 'agent' recorded under an agent's name
AgentSpansOf(name) ==
    {i \in 1..Len(traces) : traces[i].run_type = "agent" /\ traces[i].name = name}

\* C18: with tracing_enabled = FALSE in the effective config, invoking the
\* agent records no 'agent' span for it; with TRUE, the invocation of a
\* declared agent's method opens one agent span named after the agent.
C18_TracingFlagControlsSpans ==
    (lastInv.called /\ lastInv.effOk /\ nInv = 1
        /\ lastInv.entry \in {"proxy_sync", "proxy_async"})
    => IF lastInv.effCfg.tracing_enabled
       THEN AgentSpansOf(lastInv.name) = {lastInv.span} /\ lastInv.span # 0
       ELSE AgentSpansOf(lastInv.name) = {}

(***************************************************************************)
(* AgentLocator.get_agent by name and by type (locator.py, experiments.py) *)
(***************************************************************************)
\* the experiments registered before the locator is used: two variants, one
\* variant, and an empty variants dict (which register_experiment accepts)
Experiments ==
    [ab |-> <<[name |-> "decl", weight |-> 1], [name |-> "virt", weight |-> 1]>>,
     solo |-> <<[name |-> "ghost", weight |-> 1]>>,
     void |-> <<>>]

\* an exception leaving get_agent
Raised(requested, error) ==
    <<[kind |-> "raised", name |-> requested, config |-> DefaultConfig(error)]>>

\* get_agent(name): the possible results, by the variant drawn
GetAgentByName(requested) ==
    { IF ~v.ok THEN Raised(requested, v.name)
      ELSE IF v.name = "" THEN <<>>
      ELSE get_agent(v.name) : v \in resolve_variant(requested) }

\* Protocol classes: one decorated with @agent(name="decl"), one registered
\* under "child_on" when that agent was scanned, one known nowhere
ProtocolTypes == {"DeclProto", "BareProto", "StrayProto"}

\* the name a type resolves to: its attached declaration, else the registry
\* entry holding the same class
NameOfType(protocol) ==
    IF protocol = "DeclProto" THEN <<"decl">>
    ELSE IF protocol = "BareProto" /\ local["child_on"] # <<>> THEN <<"child_on">>
    ELSE <<>>

\* get_agent(protocol): a proxy for the resolved name, None without one
GetAgentByType(protocol) ==
    IF NameOfType(protocol) = <<>> THEN <<>>
    ELSE <<[kind |-> "proxy", name |-> NameOfType(protocol)[1],
            config |-> DefaultConfig(NameOfType(protocol)[1])]>>

\* requested names: agents, experiments, the empty name
LocateNames == {"decl", "virt", "wf", "child_on", "ghost", "ab", "solo", "void", ""}

\* agent = locator.get_agent(name)
LocateName(requested) ==
    /\ agentObj' \in GetAgentByName(requested)
    /\ UNCHANGED <<traces, run_context, hasTracer, pending, lastInv, nInv>>
    /\ UNCHANGED <<cfgVars, mrVars, regVars, svcVars>>

\* agent = locator.get_agent(SomeProtocol)
LocateType(protocol) ==
    /\ agentObj' = GetAgentByType(protocol)
    /\ UNCHANGED <<traces, run_context, hasTracer, pending, lastInv, nInv>>
    /\ UNCHANGED <<cfgVars, mrVars, regVars, svcVars>>

\* config_service.reset_agent_config(name) / create_agent again
ToggleOverride(name) ==
    /\ overrides' = IF name \in DOMAIN overrides
                    THEN [n \in (DOMAIN overrides) \ {name} |-> overrides[n]]
                    ELSE OverridesAfterUpdate(name, CreatedFields(DefaultConfig(name)))
    /\ UNCHANGED <<remote, local, opLog, lastGet>>
    /\ UNCHANGED <<mrVars, runVars, regVars, svcVars>>

\* "decl" is declared; "child_on" is declared when its module was scanned
LocateInit ==
    /\ RegEmpty
    /\ RouterIdle
    /\ MsgIdle
    /\ NestIdle
    /\ experiments = [n \in DOMAIN Experiments |-> Normalized(Experiments[n])]
    /\ expLog = <<>>
    /\ resolved = <<>>
    /\ remote = [n \in RunNames |-> <<>>]
    /\ \E scanned \in BOOLEAN :
          local = [n \in RunNames |->
                     IF n = "decl" \/ (n = "child_on" /\ scanned)
                     THEN <<DefaultConfig(n)>> ELSE <<>>]
    /\ overrides = [n \in {"virt"} |-> CreatedFields(DefaultConfig(n))]
    /\ opLog = <<>>
    /\ lastGet = NoCall
    /\ MRIdle
    /\ limit = 1
    /\ semValue = limit
    /\ RunIdle

LocateNext ==
    \/ \E requested \in LocateNames : LocateName(requested)
    \/ \E protocol \in ProtocolTypes : LocateType(protocol)
    \/ \E name \in {"virt", "wf", "ghost", "child_on"} : ToggleOverride(name)

SpecLocate == LocateInit /\ [][LocateNext]_vars

\* C19: get_agent never raises when no agent can be resolved: after
\* experiment substitution it returns a proxy when the resolved name has a
\* local declaration, else a virtual runner when an effective config exists
\* for it, else None; a type with no declaration and no registry entry gives
\* None.
C19_GetAgentNeverRaises ==
    agentObj # <<>> =>
        /\ agentObj[1].kind \in {"proxy", "virtual"}
        /\ agentObj[1].kind = "proxy" => HasProtocol(agentObj[1].name)
        /\ agentObj[1].kind = "virtual" => ~HasProtocol(agentObj[1].name)

(***************************************************************************)
(* ToolRegistry.register                                                   *)
(***************************************************************************)
\* register, the store: self._tools[name] = tool_cls_or_instance
StoreTool(name, tool_cls_or_instance) ==
    [reg_tools EXCEPT ![name] = <<tool_cls_or_instance>>]

\* ToolRegistry.register(name, tool_cls_or_instance, tags)
register(name, tool_cls_or_instance, tags) ==
    /\ Len(regLog) < MaxRegs
    /\ reg_tools' = StoreTool(name, tool_cls_or_instance)
    /\ tag_map' = TagAll(tag_map, name, tags)
    /\ regLog' = Append(regLog, [name |-> name, tool |-> tool_cls_or_instance,
                                 tags |-> tags])
    /\ UNCHANGED <<cfgVars, mrVars, runVars, svcVars>>

ToolsInit ==
    /\ SvcIdle
    /\ CfgQuiet
    /\ MRIdle
    /\ limit = 1
    /\ semValue = limit
    /\ RunIdle
    /\ RegEmpty

ToolsNext ==
    \E name \in ToolIds, tool \in ToolObjects, tags \in TagLists :
        register(name, tool, tags)

SpecTools == ToolsInit /\ [][ToolsNext]_vars

\* the elements of a list
Elems(seq) == {seq[i] : i \in DOMAIN seq}

\* register call j is the latest one for its name and call i the one before
\* it for the same name
TwiceRegistered(i, j) ==
    /\ i < j
    /\ regLog[i].name = regLog[j].name
    /\ \A k \in DOMAIN regLog : k > i /\ k # j => regLog[k].name # regLog[i].name

\* C20: after register(name, t1, tags1) followed by register(name, t2, tags2)
\* the name is a member of the group of every tag of tags1 and of tags2, and
\* the tool registered first stays retrievable: get_tool(name) gives t1 and
\* the lookup by each tag of tags1 contains t1.
C20_SecondRegisterKeepsFirst ==
    \A i \in DOMAIN regLog, j \in DOMAIN regLog :
        TwiceRegistered(i, j) =>
            /\ \A g \in Elems(regLog[i].tags) \cup Elems(regLog[j].tags) :
                   regLog[i].name \in Elems(get_tool_names_by_tag(g))
            /\ get_tool(regLog[i].name) = <<regLog[i].tool>>
            /\ \A g \in Elems(regLog[i].tags) :
                   regLog[i].tool \in Elems(get_dynamic_tools(<<g>>))

\* the tag half of C20 alone: both registrations' tags list the name
C20_TagsAccumulate ==
    \A i \in DOMAIN regLog, j \in DOMAIN regLog :
        TwiceRegistered(i, j) =>
            \A g \in Elems(regLog[i].tags) \cup Elems(regLog[j].tags) :
                regLog[i].name \in Elems(get_tool_names_by_tag(g))

(***************************************************************************)
(* ToolRegistry.get_dynamic_tools                                          *)
(***************************************************************************)
\* the tag lists an agent can carry (AgentConfig.tags)
AgentTagLists == SeqsUpTo(Tags, MaxAgentTags)

\* the tools stored under the names of one tag group, in registration order
GroupTools(g) ==
    LET names == get_tool_names_by_tag(g)
        kept == SelectSeq(names, LAMBDA n : get_tool(n) # <<>>)
    IN  [i \in 1..Len(kept) |-> get_tool(kept[i])[1]]

\* the groups of the requested tags, one after the other in tag order
RECURSIVE RequestedTools(_)
RequestedTools(agent_tags) ==
    IF agent_tags = <<>> THEN <<>>
    ELSE GroupTools(Head(agent_tags)) \o RequestedTools(Tail(agent_tags))

\* a list without its repeated elements, first occurrences kept in order
RECURSIVE FirstOnly(_)
FirstOnly(seq) ==
    IF seq = <<>> THEN <<>>
    ELSE LET front == FirstOnly(SubSeq(seq, 1, Len(seq) - 1))
             last == seq[Len(seq)]
         IN  IF last \in Elems(front) THEN front ELSE Append(front, last)

NoRepeat(seq) == \A i \in DOMAIN seq, j \in DOMAIN seq : seq[i] = seq[j] => i = j

\* C21: for every registry state reached by register calls and every tag
\* list, get_dynamic_tools returns a list with no tool twice that starts with
\* the tools of the requested tags' groups (tag order, then registration
\* order), continues with the 'global' tools not yet present, and holds no
\* tool outside the requested groups and the 'global' group.
C21_DynamicToolsOrderedDeduplicated ==
    \A agent_tags \in AgentTagLists :
        \E found \in {get_dynamic_tools(agent_tags)} :
            /\ NoRepeat(found)
            /\ found = FirstOnly(RequestedTools(agent_tags) \o GroupTools("global"))
            /\ Elems(found) = Elems(RequestedTools(agent_tags)) \cup Elems(GroupTools("global"))
            /\ SubSeq(found, 1, Cardinality(Elems(RequestedTools(agent_tags))))
                   = FirstOnly(RequestedTools(agent_tags))

\* a tool of group "x" is also 'global' and one more tool is 'global' only:
\* the lookup by "x" lists the first once and the second after it
C21_Witness ==
    /\ Len(GroupTools("x")) >= 1
    /\ Len(GroupTools("global")) >= 2
    /\ GroupTools("x")[1] \in Elems(GroupTools("global"))
    /\ Elems(GroupTools("global")) \ Elems(GroupTools("x")) # {}
    /\ Len(get_dynamic_tools(<<"x">>)) = 2

(***************************************************************************)
(* ModelRouter.update_mapping / resolve_model                              *)
(***************************************************************************)
\* labels: three of the default table, one no table ever held
Capabilities == {"fast", "smart", "coding", "custom"}

Models == {"m1", "m2"}

\* runtime_override: None, the empty string, a model name
Overrides == {<<>>, <<"">>, <<"o1">>}

\* ModelRouter.update_mapping(capability, model)
update_mapping(capability, model) ==
    /\ Len(routeLog) < MaxMaps
    /\ capability_map' = MappingAfterUpdate(capability, model)
    /\ routeLog' = Append(routeLog, [capability |-> capability, model |-> model])
    /\ UNCHANGED <<experiments, expLog, resolved, msgIn, messages, inner, semLoop>>
    /\ UNCHANGED <<cfgVars, mrVars, runVars, regVars>>

RouteInit ==
    /\ CfgQuiet
    /\ MRIdle
    /\ limit = 1
    /\ semValue = limit
    /\ RunIdle
    /\ RegEmpty
    /\ SvcIdle

RouteNext ==
    \E capability \in {"fast", "smart", "custom"}, model \in Models :
        update_mapping(capability, model)

SpecRoute == RouteInit /\ [][RouteNext]_vars

\* the update_mapping calls for one label, oldest first
MappedTo(capability) == SelectSeq(routeLog, LAMBDA u : u.capability = capability)

\* what the claim expects without an override: the latest mapping, else the
\* default table, else the default model id
ExpectedModel(capability) ==
    IF MappedTo(capability) # <<>> THEN MappedTo(capability)[Len(MappedTo(capability))].model
    ELSE IF capability \in DOMAIN DefaultCapabilityMap THEN DefaultCapabilityMap[capability]
    ELSE "gpt-5.1"

C22_ResolvesLatest ==
    \A capability \in Capabilities, runtime_override \in Overrides :
        resolve_model(capability, runtime_override) =
            IF runtime_override # <<>> /\ runtime_override[1] # ""
            THEN runtime_override[1] ELSE ExpectedModel(capability)

C22_OtherLabelsKept ==
    \A capability \in Capabilities :
        (routeLog' # routeLog /\ routeLog'[Len(routeLog')].capability # capability)
            => resolve_model(capability, <<>>)' = resolve_model(capability, <<>>)

\* C22: after any update_mapping calls, resolve_model gives a non-empty
\* override back unchanged, otherwise the model mapped last to the label
\* (the default table at first), and the default model id for a label never
\* mapped; update_mapping for one label leaves every other label's
\* resolution as it was.
C22_RouterLastWriteWins == [](C22_ResolvesLatest) /\ [][C22_OtherLabelsKept]_vars

\* one label was mapped twice to different models, another label still
\* resolves through the default table and "custom" to the default model id
C22_Witness ==
    /\ Len(MappedTo("fast")) = 2
    /\ MappedTo("fast")[1].model # MappedTo("fast")[2].model
    /\ resolve_model("fast", <<>>) = MappedTo("fast")[2].model
    /\ MappedTo("custom") = <<>>
    /\ resolve_model("custom", <<>>) = "gpt-5.1"
    /\ resolve_model("coding", <<"">>) = "claude-3-5-sonnet"

(***************************************************************************)
(* ExperimentRegistry.register_experiment / resolve_variant                *)
(***************************************************************************)
\* the `variants` dicts, in insertion order: the skewed pair of the test
\* suite in both orders, an even pair, one variant, all weights 0, no variant
VariantDicts ==
    { <<[name |-> "canary", weight |-> 1], [name |-> "legacy", weight |-> 0]>>,
      <<[name |-> "legacy", weight |-> 0], [name |-> "canary", weight |-> 1]>>,
      <<[name |-> "canary", weight |-> 1], [name |-> "legacy", weight |-> 1]>>,
      <<[name |-> "legacy", weight |-> 2]>>,
      <<[name |-> "canary", weight |-> 0], [name |-> "legacy", weight |-> 0]>>,
      <<>> }

\* self._experiments[public_name] = normalized_variants
ExperimentsAfter(public_name, variants) ==
    [n \in (DOMAIN experiments) \cup {public_name} |->
        IF n = public_name THEN Normalized(variants) ELSE experiments[n]]

\* ExperimentRegistry.register_experiment(public_name, variants): nothing is
\* stored when the division raises
register_experiment(public_name, variants) ==
    /\ Len(expLog) < MaxExps
    /\ experiments' = IF RegisterRaises(variants) THEN experiments
                      ELSE ExperimentsAfter(public_name, variants)
    /\ expLog' = Append(expLog, [name |-> public_name, variants |-> variants,
                                 raised |-> RegisterRaises(variants)])
    /\ resolved' = <<>>
    /\ UNCHANGED <<capability_map, routeLog, msgIn, messages, inner, semLoop>>
    /\ UNCHANGED <<cfgVars, mrVars, runVars, regVars>>

\* ExperimentRegistry.resolve_variant(name), one call and its outcome
ResolveVariant(name) ==
    /\ \E outcome \in resolve_variant(name) :
          resolved' = <<[name |-> name, ok |-> outcome.ok, result |-> outcome.name]>>
    /\ UNCHANGED <<experiments, expLog, capability_map, routeLog, msgIn, messages,
                   inner, semLoop>>
    /\ UNCHANGED <<cfgVars, mrVars, runVars, regVars>>

ExpInit ==
    /\ CfgQuiet
    /\ MRIdle
    /\ limit = 1
    /\ semValue = limit
    /\ RunIdle
    /\ RegEmpty
    /\ SvcIdle

ExpNext ==
    \/ \E public_name \in {"feature_bot", "other_bot"}, variants \in VariantDicts :
          register_experiment(public_name, variants)
    \/ \E name \in {"feature_bot", "other_bot", "plain"} : ResolveVariant(name)

SpecExp == ExpInit /\ [][ExpNext]_vars

\* the register_experiment calls made for one name, oldest first
RegisteredFor(name) == SelectSeq(expLog, LAMBDA c : c.name = name)

LatestVariants(name) == RegisteredFor(name)[Len(RegisteredFor(name))].variants

\* the last call was resolve_variant and its outcome is the one claimed
C23_OutcomeAsClaimed ==
    resolved # <<>> =>
        IF RegisteredFor(resolved[1].name) = <<>>
        THEN resolved[1].ok /\ resolved[1].result = resolved[1].name
        ELSE /\ resolved[1].ok
             /\ \E i \in DOMAIN LatestVariants(resolved[1].name) :
                   /\ LatestVariants(resolved[1].name)[i].name = resolved[1].result
                   /\ LatestVariants(resolved[1].name)[i].weight # 0

C23_ResolutionKeepsExperiments == expLog' = expLog => experiments' = experiments

\* C23: resolve_variant(name) returns name unchanged when no experiment is
\* registered under it; otherwise one of the variant names of the most
\* recent register_experiment call for that name, never one of weight 0; a
\* resolution never changes the registered experiments.
C23_ResolveVariantDrawsRegistered ==
    [](C23_OutcomeAsClaimed) /\ [][C23_ResolutionKeepsExperiments]_vars

\* C23 for the experiments whose latest registration had a positive total
\* weight
C23_PositiveTotalAsClaimed ==
    (resolved # <<>> /\ RegisteredFor(resolved[1].name) # <<>>
        /\ SumWeights(LatestVariants(resolved[1].name)) > 0)
    => C23_OutcomeAsClaimed

(***************************************************************************)
(* build_messages                                                          *)
(***************************************************************************)
\* prompts: empty, a placeholder no call supplies, the default "{input}",
\* two placeholders, plain text
Templates ==
    { <<>>,
      <<Lit("Hello "), Ph("missing")>>,
      <<Ph("input")>>,
      <<Lit("Q: "), Ph("input"), Lit(" in "), Ph("lang")>>,
      <<Lit("plain")>> }

\* the call's named arguments, in insertion order
Contexts ==
    { <<>>,
      <<[key |-> "input", value |-> "hi"]>>,
      <<[key |-> "input", value |-> "hi"], [key |-> "lang", value |-> "en"]>>,
      <<[key |-> "lang", value |-> "en"], [key |-> "input", value |-> "hi"]>> }

\* messages = build_messages(config, context)
BuildMessages ==
    /\ messages = <<>>
    /\ messages' = build_messages(msgIn.system_prompt, msgIn.user_prompt_template,
                                  msgIn.context)
    /\ UNCHANGED <<msgIn, capability_map, routeLog, experiments, expLog, resolved,
                   inner, semLoop>>
    /\ UNCHANGED <<cfgVars, mrVars, runVars, regVars>>

MsgInit ==
    /\ CfgQuiet
    /\ MRIdle
    /\ limit = 1
    /\ semValue = limit
    /\ RunIdle
    /\ RegEmpty
    /\ RouterIdle
    /\ ExpIdle
    /\ NestIdle
    /\ \E system_prompt \in Templates, user_prompt_template \in Templates,
          context \in Contexts :
          msgIn = [system_prompt |-> system_prompt,
                   user_prompt_template |-> user_prompt_template,
                   context |-> context]
    /\ messages = <<>>

MsgNext == BuildMessages

SpecMsg == MsgInit /\ [][MsgNext]_vars

\* the placeholders of a template
Placeholders(template) == {template[i].text : i \in {j \in DOMAIN template : template[j].ph}}

\* a template with each placeholder replaced by the argument of that name
Filled(template, context) ==
    [i \in DOMAIN template |->
        IF template[i].ph
        THEN Lit(context[CHOOSE k \in DOMAIN context : context[k].key = template[i].text].value)
        ELSE template[i]]

\* a placeholder of the template has no argument
Missing(template, context) == ~(Placeholders(template) \subseteq Keys(context))

\* the system message is present only for a non-empty system prompt and is
\* the filled prompt, or the raw prompt when a placeholder is missing; the
\* user message is the last message
SystemAndOrderAsClaimed ==
    /\ messages[Len(messages)].role = "user"
    /\ Len(messages) = IF msgIn.system_prompt = <<>> THEN 1 ELSE 2
    /\ msgIn.system_prompt # <<>> =>
          /\ messages[1].role = "system"
          /\ messages[1].content =
                IF Missing(msgIn.system_prompt, msgIn.context) THEN msgIn.system_prompt
                ELSE Filled(msgIn.system_prompt, msgIn.context)

TaggedRegistries ==
    { [x |-> <<>>, global |-> <<>>],
      [x |-> <<>>, global |-> <<"glob">>],
      [x |-> <<"calc">>, global |-> <<"glob", "calc">>],
      [x |-> <<"lookup">>, global |-> <<"glob">>],
      [x |-> <<"glob">>, global |-> <<"lookup">>] }

\* the `agents` lists of the declared agent
AgentLists ==
    { <<>>, <<"child_on">>, <<"child_on", "child_off">>, <<"child_off", "child_on">>,
      <<"ghost", "child_on">>, <<"virt">> }

TaggedInit ==
    /\ SvcIdle
    /\ \E reg \in TaggedRegistries : RegWith(reg.x, reg.global)
    /\ \E tools \in SeqsUpTo({"calc", "lookup", "nope"}, MaxDeps), agents \in AgentLists,
          tags \in {<<>>, <<"x">>} :
          DeclaredWith([DefaultConfig("decl") EXCEPT !.tools = tools, !.agents = agents,
                                                     !.tags = tags],
                       WfAgent)
    /\ MRIdle
    /\ limit = 1
    /\ semValue = limit
    /\ traces = <<>>
    /\ run_context = 0
    /\ hasTracer = TRUE
    /\ agentObj = <<>>
    /\ pending = <<>>
    /\ lastInv = NoInvocation
    /\ nInv = 0

TaggedNext ==
    \/ GetAgent("decl")
    \/ \E b \in BOOLEAN : UpdateEnabled("child_off", b)
    \/ \E raises \in BOOLEAN : ProxyCallSync(raises, "str")

SpecTagged == TaggedInit /\ [][TaggedNext]_vars

\* the tool an entry of a tool list stands for: a registered object is the
\* tool of its name, a wrapper is named after its tool or child agent
ToolOf(obj) ==
    IF \E n \in DOMAIN reg_tools : reg_tools[n] = <<obj>>
    THEN CHOOSE n \in DOMAIN reg_tools : reg_tools[n] = <<obj>>
    ELSE obj

ToolsOf(list) == [i \in DOMAIN list |-> ToolOf(list[i])]

\* the names of `tools` the registry can resolve, in declaration order
ResolvableTools(config) == SelectSeq(config.tools, LAMBDA n : get_tool(n) # <<>>)

\* the names of `agents` that resolve to an agent and are enabled
EnabledChildren(config) ==
    SelectSeq(config.agents,
              LAMBDA n : get_agent(n) # <<>> /\ get_config(n).ok /\ get_config(n).cfg.enabled)

\* the list starts with the named tools and the child wrappers, and what
\* follows are the dynamic tools of the agent's tags, none missing
OrderedAsClaimed(list, config) ==
    LET head == ResolvableTools(config) \o EnabledChildren(config)
        dyn  == ToolsOf(DynamicTools(config))
    IN  /\ Len(list) >= Len(head)
        /\ SubSeq(ToolsOf(list), 1, Len(head)) = head
        /\ Elems(SubSeq(ToolsOf(list), Len(head) + 1, Len(list))) \subseteq Elems(dyn)
        /\ Elems(dyn) \subseteq Elems(ToolsOf(list))
        /\ (Len(config.agents) = 2 /\ Len(EnabledChildren(config)) = 2
               /\ config.tools = <<>> /\ config.tags = <<>> /\ dyn = <<>>)
              => list = config.agents

\* an enabled declared agent is invoked through its typed method
InvokedEnabled ==
    /\ nInv' # nInv
    /\ lastInv'.entry = "proxy_sync"
    /\ lastInv'.effOk
    /\ lastInv'.effCfg.enabled

C25_Step ==
    InvokedEnabled =>
        /\ lastInv'.outcome \in {"ok", "LLM crashed"}
        /\ OrderedAsClaimed(lastInv'.tools, lastInv'.effCfg)

\* C25: the tool list a declared agent's invocation passes to the model is
\* the resolvable tools named in `tools` in declaration order, then one
\* wrapper per enabled, resolvable name in `agents` in declaration order,
\* named after the child, then the tag-matched dynamic tools; two sub-agents
\* with no tools and no tags give exactly two wrappers.
C25_ToolListOrder == [][C25_Step]_vars

\* C25 for the invocations whose dependency resolution did not raise
C25_OrderWhenResolved ==
    [][(InvokedEnabled /\ lastInv'.outcome \in {"ok", "LLM crashed"})
          => OrderedAsClaimed(lastInv'.tools, lastInv'.effCfg)]_vars

\* C26: the tool list passed to the model never holds the same tool twice: a
\* tool named in `tools` and also matched by a tag or tagged 'global'
\* appears once, whether the registry holds an instance or a tool class.
C26_NoToolTwice ==
    lastInv.called =>
        \A i \in DOMAIN lastInv.tools, j \in DOMAIN lastInv.tools :
            ToolOf(lastInv.tools[i]) = ToolOf(lastInv.tools[j]) => i = j

\* C26 for LangChain-shaped instances named at most once in `tools`
C26_InstancesOnce ==
    lastInv.called =>
        \A i \in DOMAIN lastInv.tools, j \in DOMAIN lastInv.tools :
            (/\ ToolOf(lastInv.tools[i]) = ToolOf(lastInv.tools[j])
             /\ ToolKind(ToolOf(lastInv.tools[i])) = "langchain"
             /\ NoRepeat(lastInv.effCfg.tools))
                => i = j

(***************************************************************************)
(* TraceService: end_run by any id, shutdown                               *)
(***************************************************************************)
\* tracer.end_run(run_id, ...) for any id: the ambient span, a span closed
\* before, a span around the ambient one, an id no span has
EndRun(run_id, failed) ==
    /\ Found(World, run_id) # 0 => traces[Found(World, run_id)].end_time < MaxStamps
    /\ \E w \in {end_run(World, run_id, IF failed THEN <<"error">> ELSE <<>>)} :
         /\ traces' = w.traces
         /\ run_context' = w.ctx
    /\ UNCHANGED <<hasTracer, agentObj, pending, lastInv, nInv>>
    /\ UNCHANGED <<cfgVars, mrVars, regVars, svcVars>>

\* TraceService._on_shutdown: self.traces.clear(); the ContextVar is not
\* touched
OnShutdown ==
    /\ traces # <<>>
    /\ traces' = <<>>
    /\ UNCHANGED <<run_context, hasTracer, agentObj, pending, lastInv, nInv>>
    /\ UNCHANGED <<cfgVars, mrVars, regVars, svcVars>>

SpansNext ==
    \/ TraceStart("agent")
    \/ \E run_id \in 1..(MaxSpans + 1), failed \in BOOLEAN : EndRun(run_id, failed)
    \/ OnShutdown

SpecSpans == TraceInit /\ [][SpansNext]_vars

\* a span of the list after the step that has the id of span i before it
SameSpanAfter(i) == {j \in DOMAIN traces' : traces'[j].id = traces[i].id}

\* no step changes what end_run stamped on a span that is still recorded
C27_ClosedSpansFrozen ==
    \A i \in DOMAIN traces :
        traces[i].closed =>
            \A j \in SameSpanAfter(i) :
                /\ traces'[j].end_time = traces[i].end_time
                /\ traces'[j].outputs = traces[i].outputs
                /\ traces'[j].error = traces[i].error

\* end_run for an id no span has changes no span and not the ambient id
C27_UnknownIdNoEffect ==
    \A run_id \in 1..(MaxSpans + 1), failed \in BOOLEAN :
        Found(World, run_id) = 0 =>
            end_run(World, run_id, IF failed THEN <<"error">> ELSE <<>>) = World

\* C27: a span is closed exactly once: after end_run has stamped it no later
\* operation (an end_run with the same id, an end_run for another id, a
\* start_run) changes its end_time, outputs or error; an end_run for an id
\* matching no span changes no span and leaves the ambient id as it was.
C27_SpanClosedOnce == [](C27_UnknownIdNoEffect) /\ [][C27_ClosedSpansFrozen]_vars

\* C27 for every operation but a repeated end_run: a closed span changes only
\* in a step that stamps it again
C27_OnlyRestampChanges ==
    [][\A i \in DOMAIN traces :
          traces[i].closed =>
              \A j \in SameSpanAfter(i) :
                  traces'[j] # traces[i] => traces'[j].end_time = traces[i].end_time + 1]_vars

\* C30: in every reachable state of the trace collector span ids are pairwise
\* distinct and each span's parent_id is null or the id of a span recorded
\* earlier and still in the list, also after failed invocations, spans left
\* open, and a shutdown that cleared the list before new spans are started.
C30_ParentsRecordedEarlier ==
    /\ \A i \in DOMAIN traces, j \in DOMAIN traces : traces[i].id = traces[j].id => i = j
    /\ \A i \in DOMAIN traces :
          traces[i].parent_id = 0
          \/ \E j \in 1..(i - 1) : traces[j].id = traces[i].parent_id

(***************************************************************************)
(* The limiter when a map-reduce run ends (virtual.py, scheduler.py)       *)
(***************************************************************************)
\* the run returned its result or raised
RunEnded == mrPhase \in {"done", "failed"}

\* C29: when a run ends, whether it returned a result or a mapper worker
\* raised, every slot acquired during the run has been released: no mapper
\* worker call is in flight and the free slots equal the capacity again.
C29_SlotsConservedAtRunEnd ==
    RunEnded => (InFlight = {} /\ semValue = limit)

\* a mapper worker raised while the limiter had capacity for a second call,
\* another task was cancelled, and the limiter is full again
C29_Witness ==
    /\ mrPhase = "failed"
    /\ mrFailure = "mapper"
    /\ limit = 2
    /\ \E j \in 1..NTasks : tState[j] = "cancelled"
    /\ semValue = limit

(***************************************************************************)
(* Map-reduce runs nested in mapper workers (virtual.py, scheduler.py)     *)
(*                                                                         *)
(* PlatformScheduler is a singleton: every run acquires the same           *)
(* asyncio.Semaphore.  mapper_node holds a slot while                      *)
(* asyncio.to_thread(worker.run_with_args, ...) runs; when the worker is a *)
(* WORKFLOW agent, run_with_args finds no running loop in the worker       *)
(* thread and calls asyncio.run(self._arun_workflow(args)), a run of its   *)
(* own whose mappers acquire that semaphore from a second event loop.      *)
(* Every model call returns.  A wake-up set from another loop's thread is  *)
(* taken to reach the waiter.  The model stops when the top-level run      *)
(* raises.                                                                 *)
(***************************************************************************)
\* the agents a task item's worker_type selects: a ONE_SHOT agent and a
\* WORKFLOW agent whose workflow_config type is map_reduce
NestAgents == {"python_coder", "squad"}

\* self.config.agent_type == AgentType.WORKFLOW
IsWorkflow(name) == name = "squad"

NestTaskLists == UNION {[1..n -> NestAgents] : n \in 1..MaxOuter}

\* the event loop of the top-level run, and the loop asyncio.run creates in
\* the worker thread of task i
TopLoop == <<0>>

LoopOf(i) == <<i>>

\* Semaphore.acquire with no free slot calls _get_loop: it binds the
\* semaphore to the running loop when unbound, and raises RuntimeError
\* ("is bound to a different event loop") when bound to another loop
BoundElsewhere(loop) == semLoop # <<>> /\ semLoop # loop

InnerInFlight(i) == {k \in DOMAIN inner[i] : inner[i][k] = "running"}

\* an exception leaves mapper_node of task i: the nested run of task i is
\* over, the other tasks of the top-level run are cancelled, and every
\* `async with` that is left releases its slot
NestAbort(i, reason) ==
    /\ tState' = [j \in 1..NTasks |->
                    IF j = i THEN "failed"
                    ELSE IF tState[j] = "done" THEN "done" ELSE "cancelled"]
    /\ inner' = [inner EXCEPT ![i] =
                    [k \in DOMAIN inner[i] |->
                        IF inner[i][k] = "done" THEN "done" ELSE "cancelled"]]
    /\ semValue' = semValue + Cardinality(InFlight) + Cardinality(InnerInFlight(i))
    /\ mrPhase' = "failed"
    /\ mrFailure' = reason
    /\ UNCHANGED semLoop

\* task i enters `async with`; a workflow worker's run starts in the worker
\* thread and its splitter returns m task items
NestEnterWorker(i, m) ==
    /\ tState' = [tState EXCEPT ![i] = "running"]
    /\ semValue' = semValue - 1
    /\ inner' = [inner EXCEPT ![i] =
                    IF IsWorkflow(mrTasks[i]) THEN [k \in 1..m |-> "pending"] ELSE <<>>]
    /\ UNCHANGED <<mrPhase, mrFailure, semLoop>>

\* splitter_node and distribute_tasks of the top-level run
NestSplitterNode(tasks) ==
    /\ mrPhase = "idle"
    /\ mrTasks' = tasks
    /\ tState' = [i \in 1..Len(tasks) |-> "pending"]
    /\ inner' = [i \in 1..Len(tasks) |-> <<>>]
    /\ mrPhase' = "map"
    /\ UNCHANGED <<mrCfg, workerOut, mapped_results, semValue, limit, reducerCalls,
                   final_output, mrFailure, semLoop>>
    /\ UNCHANGED <<cfgVars, runVars, regVars, capability_map, routeLog, experiments,
                   expLog, resolved, msgIn, messages>>

\* mapper_node of task i of the top-level run up to its first suspension
NestMapperStart(i, m) ==
    /\ mrPhase = "map"
    /\ tState[i] = "pending"
    /\ IF CanAcquire(semValue)
       THEN NestEnterWorker(i, m)
       ELSE IF BoundElsewhere(TopLoop)
            THEN NestAbort(i, "RuntimeError")
            ELSE /\ tState' = [tState EXCEPT ![i] = "waiting"]
                 /\ semLoop' = TopLoop
                 /\ UNCHANGED <<inner, semValue, mrPhase, mrFailure>>
    /\ UNCHANGED <<mrCfg, mrTasks, workerOut, mapped_results, limit, reducerCalls,
                   final_output>>
    /\ UNCHANGED <<cfgVars, runVars, regVars, capability_map, routeLog, experiments,
                   expLog, resolved, msgIn, messages>>

\* a task of the top-level run suspended in `async with` gets a slot
NestMapperAcquire(i, m) ==
    /\ mrPhase = "map"
    /\ tState[i] = "waiting"
    /\ CanAcquire(semValue)
    /\ NestEnterWorker(i, m)
    /\ UNCHANGED <<mrCfg, mrTasks, workerOut, mapped_results, limit, reducerCalls,
                   final_output>>
    /\ UNCHANGED <<cfgVars, runVars, regVars, capability_map, routeLog, experiments,
                   expLog, resolved, msgIn, messages>>

\* mapper_node of task k of the run nested in task i, up to its first
\* suspension; a RuntimeError there leaves the nested run and then the
\* worker call of task i
InnerMapperStart(i, k) ==
    /\ mrPhase = "map"
    /\ tState[i] = "running"
    /\ inner[i][k] = "pending"
    /\ IF CanAcquire(semValue)
       THEN /\ inner' = [inner EXCEPT ![i][k] = "running"]
            /\ semValue' = semValue - 1
            /\ UNCHANGED <<tState, mrPhase, mrFailure, semLoop>>
       ELSE IF BoundElsewhere(LoopOf(i))
            THEN NestAbort(i, "RuntimeError")
            ELSE /\ inner' = [inner EXCEPT ![i][k] = "waiting"]
                 /\ semLoop' = LoopOf(i)
                 /\ UNCHANGED <<tState, semValue, mrPhase, mrFailure>>
    /\ UNCHANGED <<mrCfg, mrTasks, workerOut, mapped_results, limit, reducerCalls,
                   final_output>>
    /\ UNCHANGED <<cfgVars, runVars, regVars, capability_map, routeLog, experiments,
                   expLog, resolved, msgIn, messages>>

\* a task of a nested run suspended in `async with` gets a slot
InnerMapperAcquire(i, k) ==
    /\ mrPhase = "map"
    /\ tState[i] = "running"
    /\ inner[i][k] = "waiting"
    /\ CanAcquire(semValue)
    /\ inner' = [inner EXCEPT ![i][k] = "running"]
    /\ semValue' = semValue - 1
    /\ UNCHANGED <<mrPhase, mrCfg, mrTasks, tState, workerOut, mapped_results, limit,
                   reducerCalls, final_output, mrFailure, semLoop>>
    /\ UNCHANGED <<cfgVars, runVars, regVars, capability_map, routeLog, experiments,
                   expLog, resolved, msgIn, messages>>

\* the worker call of task k of the nested run returns: its slot is released
InnerMapperFinish(i, k) ==
    /\ mrPhase = "map"
    /\ tState[i] = "running"
    /\ inner[i][k] = "running"
    /\ inner' = [inner EXCEPT ![i][k] = "done"]
    /\ semValue' = semValue + 1
    /\ UNCHANGED <<mrPhase, mrCfg, mrTasks, tState, workerOut, mapped_results, limit,
                   reducerCalls, final_output, mrFailure, semLoop>>
    /\ UNCHANGED <<cfgVars, runVars, regVars, capability_map, routeLog, experiments,
                   expLog, resolved, msgIn, messages>>

\* the worker call of task i returns and its slot is released: at once for
\* an agent worker, for a workflow worker once every mapper of its run has
\* returned and its reducer has produced the run's output
NestMapperFinish(i) ==
    /\ mrPhase = "map"
    /\ tState[i] = "running"
    /\ \A k \in DOMAIN inner[i] : inner[i][k] = "done"
    /\ tState' = [tState EXCEPT ![i] = "done"]
    /\ semValue' = semValue + 1
    /\ UNCHANGED <<mrPhase, mrCfg, mrTasks, workerOut, mapped_results, limit,
                   reducerCalls, final_output, mrFailure, inner, semLoop>>
    /\ UNCHANGED <<cfgVars, runVars, regVars, capability_map, routeLog, experiments,
                   expLog, resolved, msgIn, messages>>

\* every mapper of the top-level run has returned: reducer_node runs and the
\* run returns its output
NestReducerNode ==
    /\ mrPhase = "map"
    /\ \A i \in 1..NTasks : tState[i] = "done"
    /\ mrPhase' = "done"
    /\ UNCHANGED <<mrCfg, mrTasks, tState, workerOut, mapped_results, semValue, limit,
                   reducerCalls, final_output, mrFailure, inner, semLoop>>
    /\ UNCHANGED <<cfgVars, runVars, regVars, capability_map, routeLog, experiments,
                   expLog, resolved, msgIn, messages>>

NestInit ==
    /\ SvcIdle
    /\ RegEmpty
    /\ CfgQuiet
    /\ RunIdle
    /\ MRIdle
    /\ limit \in 1..MaxLimit
    /\ semValue = limit

NestNext ==
    \/ \E ts \in NestTaskLists : NestSplitterNode(ts)
    \/ \E i \in 1..NTasks, m \in 1..MaxInner : NestMapperStart(i, m)
    \/ \E i \in 1..NTasks, m \in 1..MaxInner : NestMapperAcquire(i, m)
    \/ \E i \in 1..NTasks : \E k \in DOMAIN inner[i] : InnerMapperStart(i, k)
    \/ \E i \in 1..NTasks : \E k \in DOMAIN inner[i] : InnerMapperAcquire(i, k)
    \/ \E i \in 1..NTasks : \E k \in DOMAIN inner[i] : InnerMapperFinish(i, k)
    \/ \E i \in 1..NTasks : NestMapperFinish(i)
    \/ NestReducerNode

SpecNest == NestInit /\ [][NestNext]_vars

\* each step of a run is taken once it stays possible
FairSpecNest == SpecNest /\ WF_vars(NestNext)

\* C28: every map-reduce run in which all model calls return eventually
\* completes, also when a mapper worker is itself a map-reduce workflow agent
\* sharing the limiter: while the run is in its map step some mapper, of the
\* run or of a run nested in it, can take a step, so no state has every
\* in-flight mapper waiting for a slot that can never be released.
C28_NoMapperStuckForever ==
    mrPhase = "map" => ENABLED NestNext

\* C28, the termination half: the run returns or raises
C28_RunCompletes == <>RunEnded

\* a run none of whose workers is a workflow agent
NoNestedWorker == \A i \in 1..NTasks : ~IsWorkflow(mrTasks[i])

\* with agent workers only, a run in its map step completes
C28_FlatRunsComplete ==
    (mrPhase = "map" /\ NoNestedWorker) ~> RunEnded

====
